---- MODULE Spec2Model ----
(***************************************************************************)
(* A model of the monitoring dashboard front end:                          *)
(*   - the websocket service (service/websocket-service.js),               *)
(*   - the Vue dashboard component that merges snapshots into adapter      *)
(*     state and the two series bundles (MarketDashboard, part_003),       *)
(*   - the chart panels (component/LatencyChart.js, SuccessChart.js) and   *)
(*     the earlier SuccessChart variant (part_001),                        *)
(*   - the series handling of the standalone dashboard (dashboard.js).     *)
(* Times are whole seconds: Date.now() is 1000 * now.                      *)
(***************************************************************************)
EXTENDS Integers, Sequences, FiniteSets, TLC

\* ------------------------------------------------------------------ bounds
MaxTransports == 2
MaxTimers == 2
MaxSettle == 2
MaxPending == 2
MaxWsMessages == 2
MaxClock == 2
MaxListeners == 2
MaxSent == 2
MaxRequests == 1
MaxAwaits == 1

\* ------------------------------------------------------- program constants
maxReconnectAttempts == 5
BaseDelay == 3000
DelayCap == 30000
maxPoints == 100
HashTail == 5

NoWs == 0
NoTime == 0

VARIABLES
  \* websocket service
  transports,         \* readyState of every transport created, by id
  ws,                 \* the service's current transport (NoWs = null)
  reconnectAttempts,
  reconnectTimers,    \* number of pending setTimeout(connect, delay)
  settleTimers,       \* number of pending setTimeout(requestInitialData, 1000)
  listeners,          \* event -> handlers in registration order
  sent,               \* get_initial_data messages handed to each transport held
  \* Vue dashboard component
  dash,               \* its data()
  dashMounted,        \* "created", "mounted", "removed"
  now,                \* wall clock, seconds
  \* chart panels
  panel,              \* data() of each chart component
  chartData,          \* the chartData prop of each
  pending,            \* callbacks each handed to $nextTick, oldest first
  canvas,             \* $refs.chartCanvas is set
  panelPhase,         \* "created", "mounted", "unmounted"
  focus,              \* the component a panel-only run exercises
  prevHash,           \* fingerprint of the previous update with content
  \* observation of the last step
  lastOp,
  lastEmitted,        \* events emitted by the last step, in order
  lastDelay,          \* delay of the last reconnect scheduled since an open
  userDisconnected,   \* disconnect() was called, connect() not called since
  exhausted,          \* a close found the budget spent, connect() not called since
  msgCount

VARIABLES
  standalone,   \* the MarketDashboard object of dashboard.js
  variant,      \* which dashboard the page runs: "vue" (part_003) or "standalone"
  warm,         \* warm-up merges handled so far
  warming,      \* TRUE while the run starts with the warm-up merges
  seen,         \* adapter ids that a handled snapshot has named
  lastMsg       \* index of the message handled last, 0 when another event came since

VARIABLES
  invoked,      \* the callbacks the latest step's emit() called, in order
  result,       \* what the latest send() came to: "none" when the step was no send()
  dropped       \* payloads that JSON.parse has rejected so far

VARIABLES
  card          \* the adapter card and table row rendered last, with their inputs

VARIABLES
  polled        \* the polling of dashboard.js. early: a request is pending that
                \* was made before the transport message handled last; age:
                \* "older" when the response read last is older than that
                \* message, "none" otherwise; awaits:
                \* the fetchDataViaHTTP() calls suspended at a json() await

svcVars == <<transports, ws, reconnectAttempts, reconnectTimers, settleTimers,
             listeners, sent>>
dashVars == <<dash, dashMounted, now>>
panelVars == <<panel, chartData, pending, canvas, panelPhase, focus, prevHash>>
obsVars == <<lastOp, lastEmitted, lastDelay, userDisconnected, exhausted, msgCount>>
standaloneVars == <<standalone, variant>>
phaseVars == <<warm, warming, seen, lastMsg>>
traceVars == <<invoked, result, dropped>>
vars == <<svcVars, dashVars, panelVars, obsVars, standaloneVars, phaseVars, traceVars,
          card, polled>>

\* a step that emits nothing, is no send(), rejects no payload, renders no
\* card and merges no polled response
quiet == invoked' = <<>> /\ result' = "none" /\ UNCHANGED <<dropped, card, polled>>

Events == {"connected", "disconnected", "message", "error"}

Min(a, b) == IF a < b THEN a ELSE b

\* ------------------------------------------------------------ JS helpers
\* obj.field || 0
OrZero(m, f) == IF f \in DOMAIN m THEN m[f] ELSE 0

\* { ...old, ...new }
SpreadMerge(old, new) ==
  [f \in (DOMAIN old) \cup (DOMAIN new) |->
     IF f \in DOMAIN new THEN new[f] ELSE old[f]]

\* A bundle (latencyData, successData, a chartData prop) is an object whose
\* keys keep their insertion order: a sequence of [k, v] without repeated k.
BundleKeys(b) == {b[i].k : i \in DOMAIN b}
BundleHas(b, a) == a \in BundleKeys(b)
BundleGet(b, a) == LET i == CHOOSE i \in DOMAIN b : b[i].k = a IN b[i].v
BundlePut(b, a, pts) ==
  IF BundleHas(b, a)
  THEN [i \in DOMAIN b |-> IF b[i].k = a THEN [k |-> a, v |-> pts] ELSE b[i]]
  ELSE Append(b, [k |-> a, v |-> pts])

\* ------------------------------------------------- Vue dashboard (part_003)
DashInit(t) ==
  [connected |-> FALSE, testRunning |-> TRUE, adapters |-> <<>>,
   latencyData |-> <<>>, successData |-> <<>>,
   startTime |-> t * 1000, chartStartTime |-> NoTime,
   totalDataPoints |-> 0, lastUpdate |-> NoTime, notifications |-> 0]

\* array.push(p); if (array.length > maxPoints) array.shift()
\* a faulty variant: the newest point is evicted instead of the oldest
PushShiftMut(buf, p) ==
  LET b == Append(buf, p) IN
  IF Len(b) > maxPoints THEN SubSeq(b, 1, Len(b) - 1) ELSE b
PushShift(buf, p) ==
  LET b == Append(buf, p) IN
  IF Len(b) > maxPoints THEN Tail(b) ELSE b

\* a faulty variant: the elapsed time is taken with the wrong sign
updateChartDataMut(d, adapter, metrics, t) ==
  LET start == IF d.chartStartTime = NoTime THEN (t * 1000) \div 1000
               ELSE d.chartStartTime
      elapsedSeconds == start - (t * 1000) \div 1000
      lat == IF BundleHas(d.latencyData, adapter)
             THEN BundleGet(d.latencyData, adapter) ELSE <<>>
      suc == IF BundleHas(d.successData, adapter)
             THEN BundleGet(d.successData, adapter) ELSE <<>>
      latencyPoint == [x |-> elapsedSeconds, y |-> OrZero(metrics, "avg_latency_ms")]
      successPoint == [x |-> elapsedSeconds, y |-> OrZero(metrics, "success_rate") * 100]
  IN [d EXCEPT !.chartStartTime = start,
               !.latencyData = BundlePut(@, adapter, PushShift(lat, latencyPoint)),
               !.successData = BundlePut(@, adapter, PushShift(suc, successPoint))]
updateChartData(d, adapter, metrics, t) ==
  LET start == IF d.chartStartTime = NoTime THEN (t * 1000) \div 1000
               ELSE d.chartStartTime
      elapsedSeconds == (t * 1000) \div 1000 - start
      lat == IF BundleHas(d.latencyData, adapter)
             THEN BundleGet(d.latencyData, adapter) ELSE <<>>
      suc == IF BundleHas(d.successData, adapter)
             THEN BundleGet(d.successData, adapter) ELSE <<>>
      latencyPoint == [x |-> elapsedSeconds, y |-> OrZero(metrics, "avg_latency_ms")]
      successPoint == [x |-> elapsedSeconds, y |-> OrZero(metrics, "success_rate") * 100]
  IN [d EXCEPT !.chartStartTime = start,
               !.latencyData = BundlePut(@, adapter, PushShift(lat, latencyPoint)),
               !.successData = BundlePut(@, adapter, PushShift(suc, successPoint))]

\* summary: a sequence of [k |-> adapter, v |-> metrics]
RECURSIVE updateAdaptersFrom(_, _, _, _)
updateAdaptersFrom(d, summary, i, t) ==
  IF i > Len(summary) THEN d
  ELSE LET adapter == summary[i].k
           metrics == summary[i].v
           old == IF adapter \in DOMAIN d.adapters THEN d.adapters[adapter] ELSE <<>>
           merged == SpreadMerge(SpreadMerge(old, metrics), [lastUpdate |-> t])
           d1 == [d EXCEPT !.adapters =
                    [a \in (DOMAIN d.adapters) \cup {adapter} |->
                       IF a = adapter THEN merged ELSE d.adapters[a]]]
       IN updateAdaptersFrom(updateChartData(d1, adapter, metrics, t), summary, i + 1, t)

\* a faulty variant: only the first adapter of the summary is merged
updateAdaptersMut(d, summary, t) ==
  updateAdaptersFrom(d, SubSeq(summary, 1, Min(1, Len(summary))), 1, t)
updateAdapters(d, summary, t) == updateAdaptersFrom(d, summary, 1, t)

\* a faulty variant: the adapters are dropped instead of marked offline
markAdaptersOfflineMut(d) == [d EXCEPT !.adapters = <<>>]
markAdaptersOffline(d) ==
  [d EXCEPT !.adapters =
     [a \in DOMAIN d.adapters |->
        SpreadMerge(d.adapters[a], [is_connected |-> FALSE])]]

\* A decoded message is a record holding the fields the payload has; a field
\* the payload omits is not in its DOMAIN.
Has(data, f) == f \in DOMAIN data

\* a faulty variant: a status message always starts the run
handleWebSocketMessageMut(d, data, t) ==
  LET d0 == [d EXCEPT !.totalDataPoints = @ + 1, !.lastUpdate = t] IN
  CASE data.type = "metrics_update" ->
         updateAdapters(d0,
           IF Has(data, "data") /\ Has(data.data, "summary") THEN data.data.summary
           ELSE <<>>, t)
    [] data.type = "status" ->
         LET d1 == [d0 EXCEPT !.testRunning = TRUE]
         IN IF Has(data, "summary") THEN updateAdapters(d1, data.summary, t)
            ELSE d1
    [] data.type = "initial_data" ->
         LET d1 == IF Has(data, "start_time") /\ data.start_time # 0
                   THEN [d0 EXCEPT !.startTime = data.start_time] ELSE d0
         IN IF Has(data, "summary") THEN updateAdapters(d1, data.summary, t)
            ELSE d1
    [] data.type = "test_complete" ->
         [d0 EXCEPT !.testRunning = FALSE, !.notifications = @ + 1]
    [] data.type = "summary" ->
         IF Has(data, "summary") THEN updateAdapters(d0, data.summary, t)
         ELSE d0
    [] OTHER -> d0

handleWebSocketMessage(d, data, t) ==
  LET d0 == [d EXCEPT !.totalDataPoints = @ + 1, !.lastUpdate = t] IN
  CASE data.type = "metrics_update" ->
         updateAdapters(d0,
           IF Has(data, "data") /\ Has(data.data, "summary") THEN data.data.summary
           ELSE <<>>, t)
    [] data.type = "status" ->
         LET d1 == [d0 EXCEPT !.testRunning =
                      IF Has(data, "test_running") THEN data.test_running # FALSE
                      ELSE TRUE]
         IN IF Has(data, "summary") THEN updateAdapters(d1, data.summary, t)
            ELSE d1
    [] data.type = "initial_data" ->
         LET d1 == IF Has(data, "start_time") /\ data.start_time # 0
                   THEN [d0 EXCEPT !.startTime = data.start_time] ELSE d0
         IN IF Has(data, "summary") THEN updateAdapters(d1, data.summary, t)
            ELSE d1
    [] data.type = "test_complete" ->
         [d0 EXCEPT !.testRunning = FALSE, !.notifications = @ + 1]
    [] data.type = "summary" ->
         IF Has(data, "summary") THEN updateAdapters(d0, data.summary, t)
         ELSE d0
    [] OTHER -> d0

\* a faulty variant: the connected handler also marks the test as running
onConnectedMut(d) == [d EXCEPT !.connected = TRUE, !.testRunning = TRUE]
onConnected(d) == [d EXCEPT !.connected = TRUE]

\* a faulty variant: the point counter is zeroed as well
onDisconnectedMut(d) ==
  markAdaptersOffline([d EXCEPT !.connected = FALSE, !.testRunning = FALSE,
                                !.totalDataPoints = 0])
onDisconnected(d) ==
  markAdaptersOffline([d EXCEPT !.connected = FALSE, !.testRunning = FALSE])

\* ------------------------------------ standalone dashboard (dashboard.js)
\* constructor(), up to and including its connectWebSocket()
StandaloneInit ==
  [ws |-> "CONNECTING", closing |-> 0, connected |-> FALSE, testRunning |-> TRUE,
   dataHistory |-> <<>>, chartStartTime |-> NoTime, cards |-> <<>>,
   totalDataPoints |-> 0, retryTimers |-> 0, settleTimers |-> 0, fetches |-> 0,
   notifications |-> 0, startTimers |-> 0, dataPollingInterval |-> FALSE,
   lastUpdate |-> FALSE]

DefaultAdapters == <<"binance", "polymarket">>

\* metrics.is_connected || false
OrFalse(m, f) == IF f \in DOMAIN m THEN m[f] ELSE FALSE

\* dataHistory is an object in insertion order: a sequence of
\* [k, latency, success]
HistoryHas(h, a) == \E i \in DOMAIN h : h[i].k = a
HistoryGet(h, a) ==
  IF HistoryHas(h, a) THEN h[CHOOSE i \in DOMAIN h : h[i].k = a]
  ELSE [k |-> a, latency |-> <<>>, success |-> <<>>]
HistoryPut(h, e) ==
  IF HistoryHas(h, e.k) THEN [i \in DOMAIN h |-> IF h[i].k = e.k THEN e ELSE h[i]]
  ELSE Append(h, e)

\* push both points; if (latency.length > 100) shift both
\* a faulty variant: nothing is evicted
HistoryPushMut(e, lp, sp) ==
  [e EXCEPT !.latency = Append(@, lp), !.success = Append(@, sp)]
\* a faulty variant: only the latency series is evicted
HistoryPushOneSeriesMut(e, lp, sp) ==
  LET lat == Append(e.latency, lp)
      suc == Append(e.success, sp)
  IN IF Len(lat) > maxPoints
     THEN [e EXCEPT !.latency = Tail(lat), !.success = suc]
     ELSE [e EXCEPT !.latency = lat, !.success = suc]
HistoryPush(e, lp, sp) ==
  LET lat == Append(e.latency, lp)
      suc == Append(e.success, sp)
  IN IF Len(lat) > maxPoints
     THEN [e EXCEPT !.latency = Tail(lat), !.success = Tail(suc)]
     ELSE [e EXCEPT !.latency = lat, !.success = suc]

RECURSIVE updateChartsFrom(_, _, _, _)
updateChartsFrom(h, summary, i, elapsed) ==
  IF i > Len(summary) THEN h
  ELSE LET metrics == summary[i].v
           e == HistoryPush(HistoryGet(h, summary[i].k),
                            [x |-> elapsed, y |-> OrZero(metrics, "avg_latency_ms")],
                            [x |-> elapsed, y |-> OrZero(metrics, "success_rate") * 100])
       IN updateChartsFrom(HistoryPut(h, e), summary, i + 1, elapsed)

\* a faulty variant: every merge takes its own time as the epoch
updateChartsMut(s, summary, t) ==
  LET start == (t * 1000) \div 1000
      elapsed == (t * 1000) \div 1000 - start
  IN [s EXCEPT !.chartStartTime = start,
               !.dataHistory = updateChartsFrom(@, summary, 1, elapsed)]
updateCharts(s, summary, t) ==
  LET start == IF s.chartStartTime = NoTime THEN (t * 1000) \div 1000
               ELSE s.chartStartTime
      elapsed == (t * 1000) \div 1000 - start
  IN [s EXCEPT !.chartStartTime = start,
               !.dataHistory = updateChartsFrom(@, summary, 1, elapsed)]

\* the overview cards: one per entry of the summary, the earlier ones removed
updateOverviewCards(s, summary) ==
  [s EXCEPT !.cards =
     [a \in {summary[i].k : i \in DOMAIN summary} |->
        LET metrics == (CHOOSE e \in {summary[i] : i \in DOMAIN summary} : e.k = a).v
        IN [avg_latency_ms |-> OrZero(metrics, "avg_latency_ms"),
            success_rate |-> OrZero(metrics, "success_rate") * 100,
            is_connected |-> OrFalse(metrics, "is_connected")]]]

\* updateDashboard(data) with data.summary || {}
updateDashboard(s, data, t) ==
  LET summary == IF Has(data, "summary") THEN data.summary ELSE <<>>
  IN updateCharts(updateOverviewCards(s, summary), summary, t)

\* a faulty variant: test_complete raises no notification
handleMessageMut(s, data, t) ==
  LET s0 == [s EXCEPT !.totalDataPoints = @ + 1] IN
  CASE data.type = "metrics_update" ->
         IF Has(data, "data") THEN updateDashboard(s0, data.data, t) ELSE s0
    [] data.type = "status" ->
         LET s1 == [s0 EXCEPT !.testRunning =
                      IF Has(data, "test_running") THEN data.test_running # FALSE
                      ELSE TRUE]
         IN IF Has(data, "summary") THEN updateDashboard(s1, [summary |-> data.summary], t)
            ELSE s1
    [] data.type = "initial_data" ->
         IF Has(data, "summary") THEN updateDashboard(s0, [summary |-> data.summary], t)
         ELSE s0
    [] data.type = "test_complete" -> [s0 EXCEPT !.testRunning = FALSE]
    [] data.type = "summary" ->
         IF Has(data, "summary") THEN updateDashboard(s0, [summary |-> data.summary], t)
         ELSE s0
    [] OTHER -> s0

handleMessage(s, data, t) ==
  LET s0 == [s EXCEPT !.totalDataPoints = @ + 1] IN
  CASE data.type = "metrics_update" ->
         IF Has(data, "data") THEN updateDashboard(s0, data.data, t) ELSE s0
    [] data.type = "status" ->
         LET s1 == [s0 EXCEPT !.testRunning =
                      IF Has(data, "test_running") THEN data.test_running # FALSE
                      ELSE TRUE]
         IN IF Has(data, "summary") THEN updateDashboard(s1, [summary |-> data.summary], t)
            ELSE s1
    [] data.type = "initial_data" ->
         IF Has(data, "summary") THEN updateDashboard(s0, [summary |-> data.summary], t)
         ELSE s0
    [] data.type = "test_complete" ->
         [s0 EXCEPT !.testRunning = FALSE, !.notifications = @ + 1]
    [] data.type = "summary" ->
         IF Has(data, "summary") THEN updateDashboard(s0, [summary |-> data.summary], t)
         ELSE s0
    [] OTHER -> s0

\* this.lastSummary is assigned nowhere, so the adapter list is the default one
updateAdaptersToOffline(s, t) ==
  LET offlineSummary ==
        [i \in DOMAIN DefaultAdapters |->
           [k |-> DefaultAdapters[i],
            v |-> [avg_latency_ms |-> 0, success_rate |-> 0,
                   messages_received |-> 0, is_connected |-> FALSE]]]
  IN updateDashboard(s, [summary |-> offlineSummary], t)

\* connectWebSocket(): an existing transport is closed, a new one replaces it
connectWebSocket(s) ==
  [s EXCEPT !.closing = IF s.ws \in {"CONNECTING", "OPEN"} THEN @ + 1 ELSE @,
            !.ws = "CONNECTING"]

\* ------------------- chart panels (LatencyChart.js, SuccessChart.js, part_001)
\* "latency" is LatencyChart.js, "success" is SuccessChart.js and "legacy" is
\* the earlier SuccessChart of part_001, which updates a chart in place.
Panels == {"latency", "success", "legacy"}
IsLegacy(p) == p = "legacy"
\* the panels the Vue dashboard embeds
RebuildPanels == {"latency", "success"}

\* lastDataHash starts as '', which no JSON.stringify result equals.
EmptyHash == << [k |-> "", v |-> <<>>] >>

\* chartStatus: "waiting" is the initial text, "updating" the one the watcher
\* sets, "ready" after a creation, "updated" after an in-place update,
\* "no data" when no dataset is built, "failed" after a caught exception.
\* chart is "null", "live" (a chart object not destroyed) or "destroyed" (a
\* reference to a chart object that was destroyed); liveCharts counts the chart
\* objects bound to the panel's canvas that are not destroyed.
PanelInit ==
  [chart |-> "null", mountedReady |-> FALSE, showPlaceholder |-> TRUE,
   chartStatus |-> "waiting", lastDataHash |-> EmptyHash, liveCharts |-> 0]

checkDataHasContent(data) == \E i \in DOMAIN data : Len(data[i].v) > 0

\* array.slice(-n)
LastN(s, n) == SubSeq(s, IF Len(s) > n THEN Len(s) - n + 1 ELSE 1, Len(s))

NonEmptyEntry(e) == Len(e.v) > 0

\* a faulty variant: the whole of each series is serialized
calculateDataHashMut(data) ==
  LET kept == SelectSeq(data, NonEmptyEntry) IN
  [i \in DOMAIN kept |-> [k |-> kept[i].k, v |-> kept[i].v]]

\* JSON.stringify of { k: v.slice(-5) } over the non-empty series, in key order
calculateDataHash(data) ==
  LET kept == SelectSeq(data, NonEmptyEntry) IN
  [i \in DOMAIN kept |-> [k |-> kept[i].k, v |-> LastN(kept[i].v, HashTail)]]

\* watch.chartData handler: whether it goes on to schedule a rebuild
\* a faulty variant: the fingerprint is not compared
WatchSchedulesMut(p, pn, newData) ==
  /\ pn.mountedReady
  /\ checkDataHasContent(newData)
WatchSchedules(p, pn, newData) ==
  /\ pn.mountedReady
  /\ checkDataHasContent(newData)
  /\ ~ (/\ calculateDataHash(newData) = pn.lastDataHash
        /\ (IsLegacy(p) => pn.chart # "null"))

\* watch.chartData handler: the panel fields it assigns
WatchPanel(p, pn, newData) ==
  IF ~pn.mountedReady THEN pn
  ELSE IF ~checkDataHasContent(newData)
  THEN [pn EXCEPT !.showPlaceholder = TRUE, !.chartStatus = "waiting"]
  ELSE IF WatchSchedules(p, pn, newData)
  THEN [pn EXCEPT !.lastDataHash = calculateDataHash(newData),
                  !.showPlaceholder = FALSE, !.chartStatus = "updating"]
  ELSE pn

\* this.chart.destroy()
DestroyChart(pn) ==
  [pn EXCEPT !.chart = "destroyed",
             !.liveCharts = IF pn.chart = "live" THEN @ - 1 ELSE @]

\* if (this.chart) { this.chart.destroy(); this.chart = null; }
\* part_001 destroys and keeps the reference.
DestroyOld(p, pn) ==
  IF pn.chart = "null" THEN pn
  ELSE IF IsLegacy(p) THEN DestroyChart(pn)
  ELSE [DestroyChart(pn) EXCEPT !.chart = "null"]

\* a faulty variant: the canvas reference is not checked
initChartMut(p, pn, data, hasCanvas, createOk) ==
  LET p1 == DestroyOld(p, pn) IN
  IF ~checkDataHasContent(data)
  THEN [p1 EXCEPT !.showPlaceholder = TRUE, !.chartStatus = "no data"]
  ELSE IF createOk
  THEN [p1 EXCEPT !.chart = "live", !.liveCharts = @ + 1,
                  !.showPlaceholder = FALSE, !.chartStatus = "ready"]
  ELSE [p1 EXCEPT !.showPlaceholder = TRUE, !.chartStatus = "failed"]
\* initChart(data); hasCanvas: $refs.chartCanvas is set; createOk: new Chart(...)
\* returns rather than throws
initChart(p, pn, data, hasCanvas, createOk) ==
  IF ~hasCanvas THEN pn
  ELSE LET p1 == DestroyOld(p, pn) IN
       IF ~checkDataHasContent(data)
       THEN [p1 EXCEPT !.showPlaceholder = TRUE, !.chartStatus = "no data"]
       ELSE IF createOk
       THEN [p1 EXCEPT !.chart = "live", !.liveCharts = @ + 1,
                       !.showPlaceholder = FALSE, !.chartStatus = "ready"]
       ELSE [p1 EXCEPT !.showPlaceholder = TRUE, !.chartStatus = "failed"]

\* updateChart(data) of part_001; updateOk: chart.update('none') returns
updateChart(p, pn, data, hasCanvas, updateOk, createOk) ==
  IF pn.chart = "null" THEN initChart(p, pn, data, hasCanvas, createOk)
  ELSE IF ~checkDataHasContent(data) THEN [pn EXCEPT !.showPlaceholder = TRUE]
  ELSE IF updateOk
  THEN [pn EXCEPT !.showPlaceholder = FALSE, !.chartStatus = "updated"]
  ELSE initChart(p, pn, data, hasCanvas, createOk)

\* the callback the watcher hands to $nextTick
deferredRebuild(p, pn, data, hasCanvas, updateOk, createOk) ==
  IF IsLegacy(p) /\ pn.chart # "null"
  THEN updateChart(p, pn, data, hasCanvas, updateOk, createOk)
  ELSE initChart(p, pn, data, hasCanvas, createOk)

\* beforeUnmount()
panelBeforeUnmount(pn) ==
  IF pn.chart = "null" THEN pn ELSE [DestroyChart(pn) EXCEPT !.chart = "null"]

\* ------------------------- adapter card (part_002), metrics table, schema
\* config/adapter.js, cut down to the fields the classifications read. The
\* rates of the file are fractions (0.99); here they are in hundredths (99),
\* and so are the values classified against them.
adapterConfig ==
  [binance |->
     [name |-> "Binance", color |-> "#f0b90b", type |-> "exchange",
      sections |-> <<"validation", "signals", "recent">>,
      metrics |->
        [avg_latency_ms |-> [thresholds |-> [good |-> 50, warning |-> 100]],
         success_rate |-> [format |-> "percent"],
         validations_success |->
           [color |-> [type |-> "static", value |-> "text-success"]],
         validations_failed |->
           [color |-> [type |-> "static", value |-> "text-danger"]],
         validation_success_rate |->
           [color |-> [type |-> "threshold",
                       thresholds |-> << [min |-> 99, class |-> "badge bg-success"],
                                         [min |-> 95, class |-> "badge bg-warning"],
                                         [min |-> 0, class |-> "badge bg-danger"] >>]],
         warnings |->
           [color |-> [type |-> "conditional",
                       conditions |-> << [condition |-> ">", value |-> 0,
                                          class |-> "text-warning"],
                                         [condition |-> "=", value |-> 0,
                                          class |-> "text-muted"] >>]]]],
   polymarket |->
     [name |-> "Polymarket", color |-> "#8b5cf6", type |-> "prediction_market",
      sections |-> <<"latency_distribution">>,
      metrics |->
        [avg_latency_ms |-> [thresholds |-> [good |-> 100, warning |-> 200]],
         success_rate |-> [format |-> "percent"],
         p50_latency_ms |-> [format |-> "number"]]]]

\* the adapter ids a card is rendered for; okx has no entry in the schema
CardAdapters == {"binance", "polymarket", "okx"}

\* String.prototype.toUpperCase on an adapter id
toUpperCase(a) ==
  CASE a = "binance" -> "BINANCE"
    [] a = "polymarket" -> "POLYMARKET"
    [] a = "okx" -> "OKX"

\* getAdapterConfig(adapterName) of the dashboard
\* a faulty variant: the default projection takes the schema of binance
getAdapterConfigMut(a) ==
  IF a \in DOMAIN adapterConfig THEN adapterConfig[a] ELSE adapterConfig["binance"]
getAdapterConfig(a) ==
  IF a \in DOMAIN adapterConfig THEN adapterConfig[a]
  ELSE [name |-> toUpperCase(a), color |-> "#3b82f6", type |-> "unknown",
        sections |-> <<>>, metrics |-> <<>>]

\* this.config?.metrics?.[metricKey], <<>> when there is none
MetricConfig(config, metricKey) ==
  IF "metrics" \in DOMAIN config /\ metricKey \in DOMAIN config.metrics
  THEN config.metrics[metricKey] ELSE <<>>

displayName(config, a) ==
  IF "name" \in DOMAIN config /\ config.name # "" THEN config.name
  ELSE toUpperCase(a)

\* headerStyle().borderColor
borderColor(config) ==
  IF "color" \in DOMAIN config /\ config.color # "" THEN config.color
  ELSE "#3b82f6"

\* latencyClass() of the card
latencyClass(config, adapterData) ==
  LET latency == OrZero(adapterData, "avg_latency_ms")
      mc == MetricConfig(config, "avg_latency_ms")
  IN IF "thresholds" \in DOMAIN mc
     THEN IF latency <= mc.thresholds.good THEN "text-success"
          ELSE IF latency <= mc.thresholds.warning THEN "text-warning"
          ELSE "text-danger"
     ELSE IF latency < 50 THEN "text-success"
          ELSE IF latency < 100 THEN "text-warning"
          ELSE "text-danger"

\* getLatencyClass(adapterData.avg_latency_ms) of the metrics table
getLatencyClass(adapterData) ==
  LET lat == OrZero(adapterData, "avg_latency_ms") IN
  IF lat < 50 THEN "bg-success"
  ELSE IF lat < 100 THEN "bg-warning"
  ELSE "bg-danger"

\* one comparison of a conditional ladder
\* a faulty variant: '>=' is taken as '>'
MeetsConditionMut(c, value) ==
  CASE c.condition = ">" -> value > c.value
    [] c.condition = ">=" -> value > c.value
    [] c.condition = "<" -> value < c.value
    [] c.condition = "<=" -> value <= c.value
    [] c.condition \in {"=", "==="} -> value = c.value
    [] OTHER -> FALSE

MeetsCondition(c, value) ==
  CASE c.condition = ">" -> value > c.value
    [] c.condition = ">=" -> value >= c.value
    [] c.condition = "<" -> value < c.value
    [] c.condition = "<=" -> value <= c.value
    [] c.condition \in {"=", "==="} -> value = c.value
    [] OTHER -> FALSE

\* the class of the first entry of a ladder that the value meets, "" if none
RECURSIVE FirstCondition(_, _, _)
FirstCondition(conditions, value, i) ==
  IF i > Len(conditions) THEN ""
  ELSE IF MeetsCondition(conditions[i], value) THEN conditions[i].class
  ELSE FirstCondition(conditions, value, i + 1)

RECURSIVE FirstThreshold(_, _, _)
FirstThreshold(thresholds, value, i) ==
  IF i > Len(thresholds) THEN ""
  ELSE IF value >= thresholds[i].min THEN thresholds[i].class
  ELSE FirstThreshold(thresholds, value, i + 1)

\* the good/warning pair of a metric: the last step of getMetricClass
ThresholdPairClass(mc, value) ==
  IF "thresholds" \in DOMAIN mc
  THEN IF value <= mc.thresholds.good THEN "text-success"
       ELSE IF value <= mc.thresholds.warning THEN "text-warning"
       ELSE "text-danger"
  ELSE ""

\* getMetricClass(metricKey) of the card
getMetricClass(config, adapterData, metricKey) ==
  LET value == OrZero(adapterData, metricKey)
      mc == MetricConfig(config, metricKey)
  IN IF "color" \notin DOMAIN mc THEN ""
     ELSE LET cc == mc.color
              cond == IF cc.type = "conditional"
                      THEN FirstCondition(cc.conditions, value, 1) ELSE ""
              thr == IF cc.type = "threshold"
                     THEN FirstThreshold(cc.thresholds, value, 1) ELSE ""
          IN IF cond # "" THEN cond
             ELSE IF cc.type = "static" THEN cc.value
             ELSE IF thr # "" THEN thr
             ELSE ThresholdPairClass(mc, value)

\* no request is pending, no response was merged, no call is suspended
PolledIdle == [early |-> FALSE, age |-> "none", awaits |-> <<>>]

\* no card rendered yet

CardIdle ==
  [adapterName |-> "none", adapterData |-> <<>>, config |-> <<>>, displayName |-> "",
   borderColor |-> "", sections |-> <<>>, metricKeys |-> {},
   latencyClass |-> "", tableClass |-> "", metricKey |-> "none", metricClass |-> ""]

\* the card of an adapter and its row of the table, rendered from adapterData
RenderCard(a, adapterData) ==
  LET config == getAdapterConfig(a) IN
  [adapterName |-> a, adapterData |-> adapterData, config |-> config,
   displayName |-> displayName(config, a),
   borderColor |-> borderColor(config),
   sections |-> config.sections, metricKeys |-> DOMAIN config.metrics,
   latencyClass |-> latencyClass(config, adapterData),
   tableClass |-> getLatencyClass(adapterData),
   metricKey |-> "none", metricClass |-> ""]

\* ------------------------------------- websocket service (websocket-service.js)
HandlerIds == {"dashConnected", "dashDisconnected", "dashMessage"}

\* The callbacks the dashboard registers in mounted().
Handler(h, data, d, t) ==
  CASE h = "dashConnected" -> onConnected(d)
    [] h = "dashDisconnected" -> onDisconnected(d)
    [] h = "dashMessage" -> handleWebSocketMessage(d, data, t)
    [] OTHER -> d

RECURSIVE RunHandlers(_, _, _, _, _)
RunHandlers(hs, i, data, d, t) ==
  IF i > Len(hs) THEN d
  ELSE RunHandlers(hs, i + 1, data, Handler(hs[i], data, d, t), t)

\* Callbacks other components may register: "thrower" throws when called,
\* "counter" returns normally.
SubscriberIds == {"thrower", "counter"}
Throws(h) == h = "thrower"

\* the callbacks emit() calls: forEach with a try/catch around each call
RECURSIVE InvokedFromMut(_, _)
\* a faulty variant: no try/catch, the first exception ends the forEach
InvokedFromMut(hs, i) ==
  IF i > Len(hs) THEN <<>>
  ELSE IF Throws(hs[i]) THEN <<hs[i]>>
  ELSE <<hs[i]>> \o InvokedFromMut(hs, i + 1)
RECURSIVE InvokedFrom(_, _)
InvokedFrom(hs, i) ==
  IF i > Len(hs) THEN <<>> ELSE <<hs[i]>> \o InvokedFrom(hs, i + 1)

\* a step whose emit(event) calls the callbacks registered for the event
emitted(event) ==
  invoked' = InvokedFrom(listeners[event], 1) /\ result' = "none"
  /\ UNCHANGED <<dropped, card, polled>>

\* emit(event, data): every registered callback, in registration order
emit(event, data, d, t) == RunHandlers(listeners[event], 1, data, d, t)

\* on(event, callback)
on(ls, event, h) == [ls EXCEPT ![event] = Append(@, h)]

\* off(event, callback): the first occurrence is spliced out
off(ls, event, h) ==
  IF \E i \in DOMAIN ls[event] : ls[event][i] = h
  THEN LET i == CHOOSE i \in DOMAIN ls[event] :
                  /\ ls[event][i] = h
                  /\ \A j \in 1..(i - 1) : ls[event][j] # h
       IN [ls EXCEPT ![event] = SubSeq(@, 1, i - 1) \o SubSeq(@, i + 1, Len(@))]
  ELSE ls

\* A transport lives in one of MaxTransports slots. A slot is "NONE" when it
\* holds no transport; a transport whose close event has been handled and
\* that the service no longer references leaves its slot.
Slots == 1..MaxTransports
Live == {"CONNECTING", "OPEN", "CLOSING"}
IsOpen(t) == t # NoWs /\ transports[t] = "OPEN"

\* the slots once the service drops its reference to transport t
Release(tr, t) ==
  IF t # NoWs /\ tr[t] = "CLOSED" THEN [tr EXCEPT ![t] = "NONE"] ELSE tr

FreeSlot(tr) == CHOOSE t \in Slots : tr[t] = "NONE" /\ \A u \in 1..(t - 1) : tr[u] # "NONE"

\* a transport was created by this step
Created == \E t \in Slots : transports[t] \notin Live /\ transports'[t] = "CONNECTING"

\* a faulty variant: the delay shrinks with the attempt number
ReconnectDelayMut(k) == Min(BaseDelay * (maxReconnectAttempts + 1 - k), DelayCap)
ReconnectDelay(k) == Min(BaseDelay * k, DelayCap)

\* new WebSocket(wsUrl), assigned to ws
newWebSocket ==
  LET tr == Release(transports, ws) IN
  /\ \E t \in Slots : tr[t] = "NONE"
  /\ transports' = [tr EXCEPT ![FreeSlot(tr)] = "CONNECTING"]
  /\ ws' = FreeSlot(tr)
  /\ sent' = [t \in Slots |-> IF tr[t] = "NONE" THEN 0 ELSE sent[t]]

\* connect(): the transport and the fields it assigns
\* a faulty variant: no early return when the transport is open
connectMut == newWebSocket
\* a faulty variant: returns whenever a transport object exists, open or not
connectIfNoneMut ==
  IF ws # NoWs
  THEN UNCHANGED <<transports, ws, sent>>
  ELSE newWebSocket
connect ==
  IF IsOpen(ws)
  THEN UNCHANGED <<transports, ws, sent>>
  ELSE newWebSocket

\* disconnect()
disconnect ==
  IF ws # NoWs
  THEN /\ transports' = [transports EXCEPT ![ws] =
                           CASE @ \in {"CONNECTING", "OPEN"} -> "CLOSING"
                             [] @ = "CLOSED" -> "NONE"
                             [] OTHER -> @]
       /\ sent' = [sent EXCEPT ![ws] = IF transports[ws] = "CLOSED" THEN 0 ELSE @]
       /\ ws' = NoWs
  ELSE UNCHANGED <<transports, ws, sent>>

\* send(data): TRUE when handed to the transport
sendResult == IsOpen(ws)

\* the payloads a caller passes to send(): an object JSON.stringify turns into
\* text, and one it throws a TypeError on (a cyclic object, a BigInt)
Payloads == {"plain", "cyclic"}
Stringifies(payload) == payload = "plain"

\* send(data) with its payload: what the call returns, or that it throws
sendOutcome(payload) ==
  IF ~IsOpen(ws) THEN "false"
  ELSE IF Stringifies(payload) THEN "true"
  ELSE "throws"
send ==
  IF IsOpen(ws) THEN sent' = [sent EXCEPT ![ws] = @ + 1] ELSE UNCHANGED sent

Connect ==
  /\ connect
  /\ UNCHANGED <<reconnectAttempts, reconnectTimers, settleTimers, listeners>>
  /\ UNCHANGED <<dashVars, panelVars, standaloneVars, phaseVars>>
  /\ quiet
  /\ lastOp' = "connect" /\ lastEmitted' = <<>>
  /\ userDisconnected' = FALSE /\ exhausted' = FALSE
  /\ UNCHANGED <<lastDelay, msgCount>>

Disconnect ==
  /\ disconnect
  /\ UNCHANGED <<reconnectAttempts, reconnectTimers, settleTimers, listeners>>
  /\ UNCHANGED <<dashVars, panelVars, standaloneVars, phaseVars>>
  /\ quiet
  /\ lastOp' = "disconnect" /\ lastEmitted' = <<>>
  /\ userDisconnected' = TRUE
  /\ UNCHANGED <<lastDelay, exhausted, msgCount>>

\* ws.onopen
TransportOpen(t) ==
  /\ transports[t] = "CONNECTING"
  /\ settleTimers < MaxSettle
  /\ transports' = [transports EXCEPT ![t] = "OPEN"]
  /\ reconnectAttempts' = 0
  /\ dash' = emit("connected", <<>>, dash, now)
  /\ settleTimers' = settleTimers + 1
  /\ UNCHANGED <<ws, reconnectTimers, listeners, sent, dashMounted, now, panelVars, standaloneVars, phaseVars>>
  /\ emitted("connected")
  /\ lastOp' = "open" /\ lastEmitted' = <<"connected">>
  /\ lastDelay' = 0
  /\ UNCHANGED <<userDisconnected, exhausted, msgCount>>

\* ws.onclose
TransportClose(t) ==
  /\ transports[t] \in Live
  /\ transports' = [transports EXCEPT ![t] = IF t = ws THEN "CLOSED" ELSE "NONE"]
  /\ sent' = [sent EXCEPT ![t] = IF t = ws THEN @ ELSE 0]
  /\ dash' = emit("disconnected", <<>>, dash, now)
  /\ IF reconnectAttempts < maxReconnectAttempts
     THEN /\ reconnectTimers < MaxTimers
          /\ reconnectAttempts' = reconnectAttempts + 1
          /\ reconnectTimers' = reconnectTimers + 1
          /\ lastDelay' = ReconnectDelay(reconnectAttempts + 1)
          /\ UNCHANGED exhausted
     ELSE /\ UNCHANGED <<reconnectAttempts, reconnectTimers, lastDelay>>
          /\ exhausted' = TRUE
  /\ UNCHANGED <<ws, settleTimers, listeners, dashMounted, now, panelVars, standaloneVars, phaseVars>>
  /\ emitted("disconnected")
  /\ lastOp' = "close" /\ lastEmitted' = <<"disconnected">>
  /\ UNCHANGED <<userDisconnected, msgCount>>

\* ws.onerror
\* a faulty variant: the error handler schedules a reconnect of its own
TransportErrorMut(t) ==
  /\ transports[t] \in {"CONNECTING", "OPEN"}
  /\ reconnectTimers < MaxTimers
  /\ reconnectTimers' = reconnectTimers + 1
  /\ dash' = emit("error", <<>>, dash, now)
  /\ UNCHANGED <<transports, ws, reconnectAttempts, settleTimers, listeners, sent>>
  /\ UNCHANGED <<dashMounted, now, panelVars, standaloneVars, phaseVars>>
  /\ emitted("error")
  /\ lastOp' = "error" /\ lastEmitted' = <<"error">>
  /\ UNCHANGED <<lastDelay, userDisconnected, exhausted, msgCount>>
TransportError(t) ==
  /\ transports[t] \in {"CONNECTING", "OPEN"}
  /\ dash' = emit("error", <<>>, dash, now)
  /\ UNCHANGED <<svcVars, dashMounted, now, panelVars, standaloneVars, phaseVars>>
  /\ emitted("error")
  /\ lastOp' = "error" /\ lastEmitted' = <<"error">>
  /\ UNCHANGED <<lastDelay, userDisconnected, exhausted, msgCount>>

\* the callback of setTimeout(() => connect(), delay)
ReconnectTimerFires ==
  /\ reconnectTimers > 0
  /\ reconnectTimers' = reconnectTimers - 1
  /\ connect
  /\ UNCHANGED <<reconnectAttempts, settleTimers, listeners>>
  /\ UNCHANGED <<dashVars, panelVars, standaloneVars, phaseVars>>
  /\ quiet
  /\ lastOp' = "reconnect" /\ lastEmitted' = <<>>
  /\ UNCHANGED <<lastDelay, userDisconnected, exhausted, msgCount>>

\* the callback of setTimeout(() => requestInitialData(), 1000)
SettleTimerFires ==
  /\ settleTimers > 0
  /\ settleTimers' = settleTimers - 1
  /\ send
  /\ UNCHANGED <<transports, ws, reconnectAttempts, reconnectTimers, listeners>>
  /\ UNCHANGED <<dashVars, panelVars, standaloneVars, phaseVars>>
  /\ quiet
  /\ lastOp' = "settle" /\ lastEmitted' = <<>>
  /\ UNCHANGED <<lastDelay, userDisconnected, exhausted, msgCount>>

\* the chart panels before any is created with data
PanelsIdle ==
  /\ panel = [p \in Panels |-> PanelInit]
  /\ chartData = [p \in Panels |-> <<>>]
  /\ pending = [p \in Panels |-> <<>>]
  /\ canvas = [p \in Panels |-> FALSE]
  /\ panelPhase = [p \in Panels |-> "created"]
  /\ focus = "none"
  /\ prevHash = [p \in Panels |-> EmptyHash]

\* no dashboard.js page, no warm-up
StandaloneIdle ==
  /\ variant = "vue"
  /\ standalone = StandaloneInit
  /\ warm = 0 /\ warming = FALSE /\ seen = {} /\ lastMsg = 0

\* Decoded payloads the server sends. Index 0 stands for a payload that
\* JSON.parse rejects.
WsMessages ==
  << [type |-> "summary",
      summary |-> << [k |-> "binance",
                      v |-> [avg_latency_ms |-> 10, success_rate |-> 1,
                             is_connected |-> TRUE]] >>],
     [type |-> "metrics_update",
      data |-> [summary |-> << [k |-> "kraken",
                                v |-> [avg_latency_ms |-> 20, is_connected |-> TRUE]],
                               [k |-> "binance", v |-> [avg_latency_ms |-> 30]] >>]],
     [type |-> "status", test_running |-> TRUE],
     [type |-> "test_complete"],
     [type |-> "initial_data", start_time |-> 500,
      summary |-> << [k |-> "binance",
                      v |-> [avg_latency_ms |-> 10, success_rate |-> 1,
                             is_connected |-> TRUE]],
                     [k |-> "okx", v |-> [avg_latency_ms |-> 40]] >>] >>

\* status messages: {test_running: bool, summary?}
StatusMessages ==
  << [type |-> "status", test_running |-> FALSE,
      summary |-> << [k |-> "binance",
                      v |-> [avg_latency_ms |-> 30, success_rate |-> 1,
                             is_connected |-> TRUE]] >>],
     [type |-> "status", test_running |-> TRUE,
      summary |-> << [k |-> "kraken", v |-> [avg_latency_ms |-> 20]] >>],
     [type |-> "status", test_running |-> FALSE] >>

\* every message a dashboard is given: those a page receives, then the
\* status messages
ProtocolMessages == WsMessages \o StatusMessages

\* ws.onmessage: the dashboard after JSON.parse and emit('message', data);
\* payload 0 is one that JSON.parse rejects
onMessageMut(d, i, t) ==
  IF i = 0 THEN emit("message", [type |-> "undecoded"], d, t)
  ELSE emit("message", WsMessages[i], d, t)
onMessage(d, i, t) ==
  IF i = 0 THEN d ELSE emit("message", WsMessages[i], d, t)

\* ws.onmessage
TransportMessage(t, i) ==
  /\ transports[t] = "OPEN"
  /\ msgCount < MaxWsMessages
  /\ msgCount' = msgCount + 1
  /\ dash' = onMessage(dash, i, now)
  /\ IF i = 0
     THEN /\ lastEmitted' = <<>>
          /\ invoked' = <<>>
          /\ dropped' = dropped + 1
          /\ lastOp' = "malformed"
     ELSE /\ lastEmitted' = <<"message">>
          /\ invoked' = InvokedFrom(listeners["message"], 1)
          /\ UNCHANGED dropped
          /\ lastOp' = "message"
  /\ result' = "none" /\ UNCHANGED <<card, polled>>
  /\ UNCHANGED <<svcVars, dashMounted, now, panelVars, standaloneVars, phaseVars>>
  /\ UNCHANGED <<lastDelay, userDisconnected, exhausted>>

\* mounted() of the dashboard component
Mount ==
  /\ variant = "vue"
  /\ dashMounted = "created"
  /\ dashMounted' = "mounted"
  /\ connect
  /\ listeners' = on(on(on(listeners, "connected", "dashConnected"),
                        "disconnected", "dashDisconnected"),
                     "message", "dashMessage")
  /\ UNCHANGED <<reconnectAttempts, reconnectTimers, settleTimers, dash, now, panelVars, standaloneVars, phaseVars>>
  /\ quiet
  /\ lastOp' = "mount" /\ lastEmitted' = <<>>
  /\ userDisconnected' = FALSE /\ exhausted' = FALSE
  /\ UNCHANGED <<lastDelay, msgCount>>

\* beforeUnmount() of the dashboard component
Unmount ==
  /\ dashMounted = "mounted"
  /\ dashMounted' = "removed"
  /\ listeners' = off(listeners, "message", "dashMessage")
  /\ disconnect
  /\ UNCHANGED <<reconnectAttempts, reconnectTimers, settleTimers, dash, now, panelVars, standaloneVars, phaseVars>>
  /\ quiet
  /\ lastOp' = "unmount" /\ lastEmitted' = <<>>
  /\ userDisconnected' = TRUE
  /\ UNCHANGED <<lastDelay, exhausted, msgCount>>

Tick ==
  /\ now < MaxClock
  /\ now' = now + 1
  /\ UNCHANGED <<svcVars, dash, dashMounted, panelVars, standaloneVars, phaseVars>>
  /\ quiet
  /\ lastOp' = "tick" /\ lastEmitted' = <<>>
  /\ UNCHANGED <<lastDelay, userDisconnected, exhausted, msgCount>>

Init ==
  /\ transports = [t \in Slots |-> "NONE"] /\ ws = NoWs /\ reconnectAttempts = 0
  /\ reconnectTimers = 0 /\ settleTimers = 0
  /\ listeners = [e \in Events |-> <<>>]
  /\ sent = [t \in Slots |-> 0]
  /\ now = 1
  /\ dash = DashInit(1) /\ dashMounted = "created"
  /\ PanelsIdle
  /\ StandaloneIdle
  /\ lastOp = "init" /\ lastEmitted = <<>> /\ lastDelay = 0
  /\ invoked = <<>> /\ result = "none" /\ dropped = 0 /\ card = CardIdle
  /\ polled = PolledIdle
  /\ userDisconnected = FALSE /\ exhausted = FALSE /\ msgCount = 0

Next ==
  \/ Mount
  \/ Unmount
  \/ Tick
  \/ SettleTimerFires
  \/ ReconnectTimerFires
  \/ \E t \in Slots : TransportOpen(t)
  \/ \E t \in Slots : TransportClose(t)
  \/ \E t \in Slots : TransportError(t)
  \/ \E t \in Slots : \E i \in 0..Len(WsMessages) : TransportMessage(t, i)

SpecVueApp == Init /\ [][Next]_vars

\* The service alone: no component has registered a handler.
NextService ==
  \/ Connect
  \/ Disconnect
  \/ SettleTimerFires
  \/ ReconnectTimerFires
  \/ \E t \in Slots : TransportOpen(t)
  \/ \E t \in Slots : TransportClose(t)
  \/ \E t \in Slots : TransportError(t)

Spec == Init /\ [][NextService]_vars

\* ------------------------------------------------------------- the warm-up
\* A run may start with a warm-up that fills a series buffer: the first
\* summary arrives once a second, WarmUp times, each handled to the end
\* (rebuilds included) before the clock moves on.
WarmUp == maxPoints - 1
Warming == warming /\ warm < WarmUp

\* no $nextTick callback is waiting: an event handler starts only then
Settled == \A p \in Panels : pending[p] = <<>>

\* the step the warm-up takes next
WarmTurn ==
  IF variant = "standalone" /\ standalone.ws = "CONNECTING" THEN "open"
  ELSE IF ~Settled THEN "rebuild"
  ELSE IF lastOp \in {"message", "rebuild"} THEN "tick"
  ELSE "message"

Allowed(kind) == Warming => kind = WarmTurn

\* ------------------------------------------------- a chart panel on its own
Pt(x, y) == [x |-> x, y |-> y]
Ramp(n) == [i \in 1..n |-> Pt(i - 1, 10)]

\* chartData values a parent passes: {}, a key with no points, one and two
\* points, six points, six points that differ from those in the first only,
\* and one point beside a key with no points.
PanelBundles ==
  << <<>>,
     << [k |-> "binance", v |-> <<>>] >>,
     << [k |-> "binance", v |-> Ramp(1)] >>,
     << [k |-> "binance", v |-> Ramp(2)] >>,
     << [k |-> "binance", v |-> Ramp(6)] >>,
     << [k |-> "binance", v |-> [Ramp(6) EXCEPT ![1] = Pt(0, 20)]] >>,
     << [k |-> "binance", v |-> Ramp(1)], [k |-> "kraken", v |-> <<>>] >> >>

svcIdle == UNCHANGED <<svcVars, dashVars, lastEmitted, lastDelay, userDisconnected,
                       exhausted, msgCount, standaloneVars, phaseVars>>

\* mounted() of a chart component
PanelMount(p) ==
  /\ panelPhase[p] = "created"
  /\ panelPhase' = [panelPhase EXCEPT ![p] = "mounted"]
  /\ canvas' = [canvas EXCEPT ![p] = TRUE]
  /\ panel' = [panel EXCEPT ![p].mountedReady = TRUE]
  /\ pending' = [pending EXCEPT ![p] =
                   IF checkDataHasContent(chartData[p])
                   THEN Append(@, [fromProp |-> TRUE, data |-> <<>>]) ELSE @]
  /\ UNCHANGED <<chartData, focus, prevHash>>
  /\ quiet
  /\ lastOp' = "panel-mount"
  /\ svcIdle

\* the parent passes a new chartData object: the watcher runs
PanelData(p, b) ==
  /\ panelPhase[p] # "unmounted"
  /\ Len(pending[p]) < MaxPending
  /\ chartData' = [chartData EXCEPT ![p] = b]
  /\ panel' = [panel EXCEPT ![p] = WatchPanel(p, @, b)]
  /\ pending' = [pending EXCEPT ![p] =
                   IF WatchSchedules(p, panel[p], b)
                   THEN Append(@, [fromProp |-> FALSE, data |-> b]) ELSE @]
  /\ prevHash' = [prevHash EXCEPT ![p] =
                    IF panel[p].mountedReady /\ checkDataHasContent(b)
                    THEN calculateDataHash(b) ELSE @]
  /\ UNCHANGED <<canvas, panelPhase, focus>>
  /\ quiet
  /\ lastOp' = IF WatchSchedules(p, panel[p], b) THEN "data-scheduled"
               ELSE IF panel[p].mountedReady /\ checkDataHasContent(b)
               THEN "data-skipped" ELSE "data-ignored"
  /\ svcIdle

\* the oldest $nextTick callback of the panel runs
PanelRunDeferred(p, updateOk, createOk) ==
  /\ pending[p] # <<>>
  /\ Allowed("rebuild") /\ (Warming => createOk)
  /\ pending' = [pending EXCEPT ![p] = Tail(@)]
  /\ panel' = [panel EXCEPT ![p] =
                 IF Head(pending[p]).fromProp
                 THEN initChart(p, @, chartData[p], canvas[p], createOk)
                 ELSE deferredRebuild(p, @, Head(pending[p]).data, canvas[p],
                                      updateOk, createOk)]
  /\ UNCHANGED <<chartData, canvas, panelPhase, focus, prevHash>>
  /\ quiet
  /\ lastOp' = "rebuild"
  /\ svcIdle

\* beforeUnmount() of a chart component, then its canvas leaves the page
PanelUnmount(p) ==
  /\ panelPhase[p] = "mounted"
  /\ panelPhase' = [panelPhase EXCEPT ![p] = "unmounted"]
  /\ panel' = [panel EXCEPT ![p] = panelBeforeUnmount(@)]
  /\ canvas' = [canvas EXCEPT ![p] = FALSE]
  /\ UNCHANGED <<chartData, pending, focus, prevHash>>
  /\ quiet
  /\ lastOp' = "panel-unmount"
  /\ svcIdle

\* one chart component, created with any of the bundles as its prop
InitPanel ==
  /\ transports = [t \in Slots |-> "NONE"] /\ ws = NoWs /\ reconnectAttempts = 0
  /\ reconnectTimers = 0 /\ settleTimers = 0
  /\ listeners = [e \in Events |-> <<>>]
  /\ sent = [t \in Slots |-> 0]
  /\ now = 1
  /\ dash = DashInit(1) /\ dashMounted = "created"
  /\ StandaloneIdle
  /\ lastOp = "init" /\ lastEmitted = <<>> /\ lastDelay = 0
  /\ invoked = <<>> /\ result = "none" /\ dropped = 0 /\ card = CardIdle
  /\ polled = PolledIdle
  /\ userDisconnected = FALSE /\ exhausted = FALSE /\ msgCount = 0
  /\ panel = [p \in Panels |-> PanelInit]
  /\ focus \in Panels
  /\ \E i \in DOMAIN PanelBundles :
       chartData = [p \in Panels |-> IF p = focus THEN PanelBundles[i] ELSE <<>>]
  /\ pending = [p \in Panels |-> <<>>]
  /\ canvas = [p \in Panels |-> FALSE]
  /\ panelPhase = [p \in Panels |-> "created"]
  /\ prevHash = [p \in Panels |-> EmptyHash]

NextPanel ==
  \/ PanelMount(focus)
  \/ PanelUnmount(focus)
  \/ \E i \in DOMAIN PanelBundles : PanelData(focus, PanelBundles[i])
  \/ \E updateOk \in BOOLEAN, createOk \in BOOLEAN :
       PanelRunDeferred(focus, updateOk, createOk)

SpecPanel == InitPanel /\ [][NextPanel]_vars

\* ------------------------------------- a dashboard and the events it handles
\* the summary a message makes the dashboard merge, {} when it has none
MessageSummary(data) ==
  CASE data.type = "metrics_update" ->
         IF Has(data, "data") /\ Has(data.data, "summary") THEN data.data.summary
         ELSE <<>>
    [] data.type \in {"status", "initial_data", "summary"} ->
         IF Has(data, "summary") THEN data.summary ELSE <<>>
    [] OTHER -> <<>>

SummaryKeys(summary) == {summary[i].k : i \in DOMAIN summary}

\* :chart-data="latencyData", :chart-data="successData"
DashProp(d, p) == IF p = "latency" THEN d.latencyData ELSE d.successData

Counted == msgCount' = IF Warming THEN msgCount ELSE msgCount + 1
MayMerge == Warming \/ msgCount < MaxWsMessages

\* the 'message' handler of the Vue dashboard, then the chartData watchers
VueMessage(i) ==
  /\ variant = "vue"
  /\ Settled
  /\ Allowed("message") /\ (Warming => i = 1)
  /\ MayMerge
  /\ Counted
  /\ dash' = handleWebSocketMessage(dash, ProtocolMessages[i], now)
  /\ LET trig == MessageSummary(ProtocolMessages[i]) # <<>>
         hit(p) == trig /\ p \in RebuildPanels
     IN /\ chartData' = [p \in Panels |->
                           IF hit(p) THEN DashProp(dash', p) ELSE chartData[p]]
        /\ panel' = [p \in Panels |->
                       IF hit(p) THEN WatchPanel(p, panel[p], DashProp(dash', p))
                       ELSE panel[p]]
        /\ pending' = [p \in Panels |->
                         IF hit(p) /\ WatchSchedules(p, panel[p], DashProp(dash', p))
                         THEN Append(pending[p],
                                     [fromProp |-> FALSE, data |-> DashProp(dash', p)])
                         ELSE pending[p]]
        /\ prevHash' = [p \in Panels |->
                          IF hit(p) /\ panel[p].mountedReady
                             /\ checkDataHasContent(DashProp(dash', p))
                          THEN calculateDataHash(DashProp(dash', p))
                          ELSE prevHash[p]]
  /\ seen' = seen \cup SummaryKeys(MessageSummary(ProtocolMessages[i]))
  /\ lastMsg' = i
  /\ quiet
  /\ lastOp' = "message" /\ lastEmitted' = <<"message">>
  /\ UNCHANGED <<svcVars, dashMounted, now, canvas, panelPhase, focus>>
  /\ UNCHANGED <<lastDelay, userDisconnected, exhausted, standaloneVars, warm, warming>>

\* the 'connected' handler of the Vue dashboard
VueConnected ==
  /\ variant = "vue"
  /\ Settled
  /\ Allowed("connected")
  /\ dash' = onConnected(dash)
  /\ lastMsg' = 0
  /\ quiet
  /\ lastOp' = "connected" /\ lastEmitted' = <<"connected">>
  /\ UNCHANGED <<svcVars, dashMounted, now, panelVars, standaloneVars>>
  /\ UNCHANGED <<lastDelay, userDisconnected, exhausted, msgCount, warm, warming, seen>>

\* the 'disconnected' handler of the Vue dashboard
VueDisconnected ==
  /\ variant = "vue"
  /\ Settled
  /\ Allowed("disconnected")
  /\ dash' = onDisconnected(dash)
  /\ lastMsg' = 0
  /\ quiet
  /\ lastOp' = "disconnected" /\ lastEmitted' = <<"disconnected">>
  /\ UNCHANGED <<svcVars, dashMounted, now, panelVars, standaloneVars>>
  /\ UNCHANGED <<lastDelay, userDisconnected, exhausted, msgCount, warm, warming, seen>>

DashTick ==
  /\ now - warm < MaxClock
  /\ Allowed("tick")
  /\ now' = now + 1
  /\ warm' = IF Warming THEN warm + 1 ELSE warm
  /\ quiet
  /\ lastOp' = "tick" /\ lastEmitted' = <<>>
  /\ UNCHANGED <<svcVars, dash, dashMounted, panelVars, standaloneVars>>
  /\ UNCHANGED <<lastDelay, userDisconnected, exhausted, msgCount, warming, seen, lastMsg>>

standaloneIdle ==
  /\ UNCHANGED <<svcVars, dashVars, panelVars, variant>>
  /\ UNCHANGED <<lastDelay, userDisconnected, exhausted, warm, warming>>

\* ws.onopen of dashboard.js
StandaloneOpen ==
  /\ variant = "standalone"
  /\ standalone.ws = "CONNECTING"
  /\ standalone.settleTimers < MaxSettle
  /\ Allowed("open")
  /\ standalone' = [standalone EXCEPT !.ws = "OPEN", !.connected = TRUE,
                                      !.settleTimers = @ + 1]
  /\ lastMsg' = 0
  /\ quiet
  /\ lastOp' = "connected" /\ lastEmitted' = <<>>
  /\ UNCHANGED <<msgCount, seen>>
  /\ standaloneIdle

\* ws.onmessage of dashboard.js; payload 0 is one that JSON.parse rejects
StandaloneMessage(i) ==
  /\ variant = "standalone"
  /\ standalone.ws = "OPEN"
  /\ Allowed("message") /\ (Warming => i = 1)
  /\ MayMerge
  /\ Counted
  /\ IF i = 0
     THEN /\ UNCHANGED <<standalone, seen, polled>>
          /\ dropped' = dropped + 1
          /\ lastOp' = "malformed"
     ELSE /\ standalone' = handleMessage(standalone, ProtocolMessages[i], now)
          /\ seen' = seen \cup SummaryKeys(MessageSummary(ProtocolMessages[i]))
          /\ polled' = [polled EXCEPT
                          !.early = standalone.fetches > 0 \/ polled.awaits # <<>>,
                          !.age = "none"]
          /\ UNCHANGED dropped
          /\ lastOp' = "message"
  /\ lastMsg' = i
  /\ invoked' = <<>> /\ result' = "none" /\ UNCHANGED card
  /\ lastEmitted' = <<>>
  /\ standaloneIdle

\* ws.onclose of dashboard.js, of the current transport or of one that
\* connectWebSocket() closed
StandaloneClose(orphan) ==
  /\ variant = "standalone"
  /\ IF orphan THEN standalone.closing > 0
     ELSE standalone.ws \in {"CONNECTING", "OPEN"}
  /\ standalone.retryTimers < MaxTimers
  /\ Allowed("close")
  /\ MayMerge
  /\ Counted
  /\ standalone' =
       LET s1 == [standalone EXCEPT
                    !.ws = IF orphan THEN @ ELSE "CLOSED",
                    !.closing = IF orphan THEN @ - 1 ELSE @,
                    !.connected = FALSE,
                    !.testRunning = FALSE,
                    !.notifications = @ + 1,
                    !.retryTimers = @ + 1]
       IN updateAdaptersToOffline(s1, now)
  /\ lastMsg' = 0
  /\ quiet
  /\ lastOp' = "disconnected" /\ lastEmitted' = <<>>
  /\ UNCHANGED seen
  /\ standaloneIdle

\* the callback of setTimeout(() => this.connectWebSocket(), 3000)
StandaloneRetry ==
  /\ variant = "standalone"
  /\ standalone.retryTimers > 0
  /\ Allowed("retry")
  /\ standalone' = connectWebSocket([standalone EXCEPT !.retryTimers = @ - 1])
  /\ quiet
  /\ lastOp' = "reconnect" /\ lastEmitted' = <<>>
  /\ UNCHANGED <<msgCount, seen, lastMsg>>
  /\ standaloneIdle

\* the callback of setTimeout(() => this.requestInitialData(), 1000)
StandaloneSettle ==
  /\ variant = "standalone"
  /\ standalone.settleTimers > 0
  /\ Allowed("settle")
  /\ standalone.ws # "OPEN"
       => standalone.fetches + Len(polled.awaits) < MaxPending
  /\ standalone' = [standalone EXCEPT
                      !.settleTimers = @ - 1,
                      !.fetches = IF standalone.ws = "OPEN" THEN @ ELSE @ + 1]
  /\ quiet
  /\ lastOp' = "settle" /\ lastEmitted' = <<>>
  /\ UNCHANGED <<msgCount, seen, lastMsg>>
  /\ standaloneIdle

\* resetCharts(): the series and the epoch are dropped; the cards, the flags
\* and the point counter stay
resetCharts(s) == [s EXCEPT !.dataHistory = <<>>, !.chartStartTime = NoTime]

\* a call of resetCharts(), a method of the dashboard object that the page
\* publishes as window.dashboard; with nothing to drop the step stutters
StandaloneResetCharts ==
  /\ variant = "standalone"
  /\ Allowed("reset")
  /\ IF resetCharts(standalone) = standalone
     THEN UNCHANGED vars
     ELSE /\ standalone' = resetCharts(standalone)
          /\ quiet
          /\ lastOp' = "reset" /\ lastEmitted' = <<>>
          /\ UNCHANGED <<msgCount, seen, lastMsg>>
          /\ standaloneIdle

\* What a request of fetchDataViaHTTP() comes to when Promise.allSettled
\* resumes: "rejected", "error" (fulfilled, but response.ok is false) or "ok".
FetchOutcomes == {"rejected", "error", "ok"}

\* What the body of a response holds when json() resumes. status: "0" or "1"
\* connected clients; metrics: "empty" or the summary of the first message.
FetchStatus == {"0", "1"}
FetchMetrics == {"empty", "summary"}

\* A fetchDataViaHTTP() call suspended at `await ...json()`: it waits for the
\* body of the status response, with the metrics response still to read
\* ("status+metrics") or not ("status"), or for the body of the metrics
\* response ("metrics").
Continuations == {"status+metrics", "status", "metrics"}

\* a sequence without its j-th element
Without(q, j) == SubSeq(q, 1, j - 1) \o SubSeq(q, j + 1, Len(q))

\* where fetchDataViaHTTP() is suspended next once Promise.allSettled has
\* resumed, "none" when it runs to its end
fetchAwaits(statusRes, metricsRes) ==
  IF statusRes = "ok"
  THEN IF metricsRes = "ok" THEN "status+metrics" ELSE "status"
  ELSE IF metricsRes = "ok" THEN "metrics" ELSE "none"

\* fetchDataViaHTTP() from `await Promise.allSettled` to its next await or its
\* end: with both requests rejected it reconnects unless connected
fetchSettled(s, statusRes, metricsRes) ==
  IF statusRes = "rejected" /\ metricsRes = "rejected" /\ ~s.connected
  THEN connectWebSocket(s) ELSE s

\* fetchDataViaHTTP() from `await statusRes.value.json()` to its next await
fetchStatusRead(s, status, running) ==
  [s EXCEPT !.connected = (status = "1"), !.testRunning = running]

\* fetchDataViaHTTP() from `await metricsRes.value.json()` to its end
fetchMetricsRead(s, metrics, t) ==
  IF metrics = "summary"
  THEN updateDashboard(s, [summary |-> WsMessages[1].summary], t)
  ELSE s

\* both requests of a fetchDataViaHTTP() have settled: the call goes on to
\* the json() await of the first response that is ok, or to its end
StandaloneFetched(statusRes, metricsRes) ==
  /\ variant = "standalone"
  /\ standalone.fetches > 0
  /\ Allowed("fetched")
  /\ fetchAwaits(statusRes, metricsRes) # "none" => Len(polled.awaits) < MaxAwaits
  /\ polled' =
       [polled EXCEPT
          !.early = IF fetchAwaits(statusRes, metricsRes) = "none" THEN FALSE ELSE @,
          !.awaits = IF fetchAwaits(statusRes, metricsRes) = "none" THEN @
                     ELSE Append(@, fetchAwaits(statusRes, metricsRes))]
  /\ standalone' = fetchSettled([standalone EXCEPT !.fetches = @ - 1],
                                statusRes, metricsRes)
  /\ invoked' = <<>> /\ result' = "none" /\ UNCHANGED <<dropped, card>>
  /\ lastOp' = "fetched" /\ lastEmitted' = <<>>
  /\ UNCHANGED <<msgCount, seen, lastMsg>>
  /\ standaloneIdle

\* `await statusRes.value.json()` of the j-th suspended call resumes with the
\* body of the status response: the flags are written, then the call waits
\* for the body of the metrics response or ends. older: the server answered
\* from a state older than the transport message handled last, which takes a
\* request made before that message and no connection event since.
StandaloneStatusRead(j, status, running, older) ==
  /\ variant = "standalone"
  /\ j \in DOMAIN polled.awaits
  /\ polled.awaits[j] \in {"status+metrics", "status"}
  /\ Allowed("polled")
  /\ older => polled.early /\ lastMsg # 0
  /\ standalone' = fetchStatusRead(standalone, status, running)
  /\ polled' =
       [polled EXCEPT
          !.early = IF polled.awaits[j] = "status" THEN FALSE ELSE @,
          !.age = IF older THEN "older" ELSE "none",
          !.awaits = IF polled.awaits[j] = "status+metrics"
                     THEN [@ EXCEPT ![j] = "metrics"]
                     ELSE Without(@, j)]
  /\ invoked' = <<>> /\ result' = "none" /\ UNCHANGED <<dropped, card>>
  /\ lastOp' = "polled-status" /\ lastEmitted' = <<>>
  /\ UNCHANGED <<msgCount, seen, lastMsg>>
  /\ standaloneIdle

\* `await metricsRes.value.json()` of the j-th suspended call resumes with
\* the body of the metrics response: a summary that is not empty is merged,
\* and the call ends
StandaloneMetricsRead(j, metrics, older) ==
  /\ variant = "standalone"
  /\ j \in DOMAIN polled.awaits
  /\ polled.awaits[j] = "metrics"
  /\ Allowed("polled")
  /\ older => polled.early /\ lastMsg # 0
  /\ metrics = "summary" => MayMerge
  /\ msgCount' = IF metrics = "summary" /\ ~Warming THEN msgCount + 1 ELSE msgCount
  /\ standalone' = fetchMetricsRead(standalone, metrics, now)
  /\ seen' = IF metrics = "summary"
             THEN seen \cup SummaryKeys(WsMessages[1].summary) ELSE seen
  /\ polled' = [polled EXCEPT !.early = FALSE,
                              !.age = IF older THEN "older" ELSE "none",
                              !.awaits = Without(@, j)]
  /\ invoked' = <<>> /\ result' = "none" /\ UNCHANGED <<dropped, card>>
  /\ lastOp' = "polled-metrics" /\ lastEmitted' = <<>>
  /\ UNCHANGED lastMsg
  /\ standaloneIdle

\* A page runs one of the two dashboards. The Vue dashboard starts mounted,
\* its two panels mounted before it with no data; dashboard.js starts as its
\* constructor leaves it.
InitDash ==
  /\ transports = [t \in Slots |-> "NONE"] /\ ws = NoWs /\ reconnectAttempts = 0
  /\ reconnectTimers = 0 /\ settleTimers = 0
  /\ listeners = [e \in Events |-> <<>>]
  /\ sent = [t \in Slots |-> 0]
  /\ now = 1
  /\ dash = DashInit(1)
  /\ variant \in {"vue", "standalone"}
  /\ dashMounted = IF variant = "vue" THEN "mounted" ELSE "created"
  /\ standalone = StandaloneInit
  /\ warming \in BOOLEAN
  /\ warm = 0 /\ seen = {} /\ lastMsg = 0
  /\ panel = [p \in Panels |->
                IF variant = "vue" /\ p \in RebuildPanels
                THEN [PanelInit EXCEPT !.mountedReady = TRUE] ELSE PanelInit]
  /\ chartData = [p \in Panels |-> <<>>]
  /\ pending = [p \in Panels |-> <<>>]
  /\ canvas = [p \in Panels |-> variant = "vue" /\ p \in RebuildPanels]
  /\ panelPhase = [p \in Panels |->
                     IF variant = "vue" /\ p \in RebuildPanels
                     THEN "mounted" ELSE "created"]
  /\ focus = "none"
  /\ prevHash = [p \in Panels |-> EmptyHash]
  /\ lastOp = "init" /\ lastEmitted = <<>> /\ lastDelay = 0
  /\ invoked = <<>> /\ result = "none" /\ dropped = 0 /\ card = CardIdle
  /\ polled = PolledIdle
  /\ userDisconnected = FALSE /\ exhausted = FALSE /\ msgCount = 0

NextDash ==
  \/ DashTick
  \/ VueConnected
  \/ VueDisconnected
  \/ \E i \in DOMAIN WsMessages : VueMessage(i)
  \/ \E p \in RebuildPanels : \E createOk \in BOOLEAN :
       PanelRunDeferred(p, TRUE, createOk)
  \/ StandaloneOpen
  \/ StandaloneRetry
  \/ StandaloneSettle
  \/ \E orphan \in BOOLEAN : StandaloneClose(orphan)
  \/ \E i \in 0..Len(WsMessages) : StandaloneMessage(i)
  \/ \E statusRes \in FetchOutcomes, metricsRes \in FetchOutcomes :
       StandaloneFetched(statusRes, metricsRes)
  \/ \E j \in 1..MaxAwaits, status \in FetchStatus, running \in BOOLEAN,
         older \in BOOLEAN :
       StandaloneStatusRead(j, status, running, older)
  \/ \E j \in 1..MaxAwaits, metrics \in FetchMetrics, older \in BOOLEAN :
       StandaloneMetricsRead(j, metrics, older)
  \/ StandaloneResetCharts

SpecDash == InitDash /\ [][NextDash]_vars

\* ------------------------------------------------------------------ a page
\* A page as the repository assembles it: either main.js, which creates one
\* websocket service and mounts the Vue dashboard on it (connect() is called
\* by mounted() and disconnect() by beforeUnmount() only), or dashboard.js.
\* The chart panels of the Vue dashboard are left out.
InitApp ==
  /\ transports = [t \in Slots |-> "NONE"] /\ ws = NoWs /\ reconnectAttempts = 0
  /\ reconnectTimers = 0 /\ settleTimers = 0
  /\ listeners = [e \in Events |-> <<>>]
  /\ sent = [t \in Slots |-> 0]
  /\ now = 1
  /\ dash = DashInit(1) /\ dashMounted = "created"
  /\ PanelsIdle
  /\ variant \in {"vue", "standalone"}
  /\ standalone = StandaloneInit
  /\ warm = 0 /\ warming = FALSE /\ seen = {} /\ lastMsg = 0
  /\ lastOp = "init" /\ lastEmitted = <<>> /\ lastDelay = 0
  /\ invoked = <<>> /\ result = "none" /\ dropped = 0 /\ card = CardIdle
  /\ polled = PolledIdle
  /\ userDisconnected = FALSE /\ exhausted = FALSE /\ msgCount = 0

NextApp ==
  \/ Next
  \/ StandaloneOpen
  \/ StandaloneRetry
  \/ StandaloneSettle
  \/ \E orphan \in BOOLEAN : StandaloneClose(orphan)
  \/ \E i \in 0..Len(WsMessages) : StandaloneMessage(i)
  \/ \E statusRes \in FetchOutcomes, metricsRes \in FetchOutcomes :
       StandaloneFetched(statusRes, metricsRes)
  \/ \E j \in 1..MaxAwaits, status \in FetchStatus, running \in BOOLEAN,
         older \in BOOLEAN :
       StandaloneStatusRead(j, status, running, older)
  \/ \E j \in 1..MaxAwaits, metrics \in FetchMetrics, older \in BOOLEAN :
       StandaloneMetricsRead(j, metrics, older)
  \/ StandaloneResetCharts

SpecApp == InitApp /\ [][NextApp]_vars

\* ------------------------------------------- the service and its subscribers
\* Components subscribe callbacks to the events of one service, which is
\* connected whenever it has neither a transport nor a reconnect timer.
BusEvents == {"message", "disconnected"}

\* on(event, callback) called by a component
Subscribe(e, h) ==
  /\ Len(listeners[e]) < MaxListeners
  /\ listeners' = on(listeners, e, h)
  /\ UNCHANGED <<transports, ws, reconnectAttempts, reconnectTimers, settleTimers, sent>>
  /\ UNCHANGED <<dashVars, panelVars, standaloneVars, phaseVars>>
  /\ quiet
  /\ lastOp' = "on" /\ lastEmitted' = <<>>
  /\ UNCHANGED <<lastDelay, userDisconnected, exhausted, msgCount>>

\* off(event, callback) called by a component
Unsubscribe(e, h) ==
  /\ listeners[e] # <<>>
  /\ listeners' = off(listeners, e, h)
  /\ UNCHANGED <<transports, ws, reconnectAttempts, reconnectTimers, settleTimers, sent>>
  /\ UNCHANGED <<dashVars, panelVars, standaloneVars, phaseVars>>
  /\ quiet
  /\ lastOp' = "off" /\ lastEmitted' = <<>>
  /\ UNCHANGED <<lastDelay, userDisconnected, exhausted, msgCount>>

\* connect() called while the service has no transport and no timer
ConnectIdle ==
  /\ \A t \in Slots : transports[t] \notin Live
  /\ reconnectTimers = 0
  /\ Connect

NextBus ==
  \/ ConnectIdle
  \/ SettleTimerFires
  \/ ReconnectTimerFires
  \/ \E e \in BusEvents, h \in SubscriberIds : Subscribe(e, h)
  \/ \E e \in BusEvents, h \in SubscriberIds : Unsubscribe(e, h)
  \/ \E t \in Slots : TransportOpen(t)
  \/ \E t \in Slots : TransportClose(t)
  \/ \E t \in Slots : TransportError(t)
  \/ \E t \in Slots : \E i \in 0..1 : TransportMessage(t, i)

SpecBus == Init /\ [][NextBus]_vars

\* --------------------------------------------------- one client of the service
\* send(data) called by a client
Send(payload) ==
  /\ IsOpen(ws) => sent[ws] < MaxSent
  /\ sent' = IF sendOutcome(payload) = "true"
             THEN [sent EXCEPT ![ws] = @ + 1] ELSE sent
  /\ UNCHANGED <<transports, ws, reconnectAttempts, reconnectTimers, settleTimers, listeners>>
  /\ UNCHANGED <<dashVars, panelVars, standaloneVars, phaseVars>>
  /\ invoked' = <<>> /\ UNCHANGED dropped
  /\ result' = sendOutcome(payload) /\ UNCHANGED <<card, polled>>
  /\ lastOp' = "send" /\ lastEmitted' = <<>>
  /\ UNCHANGED <<lastDelay, userDisconnected, exhausted, msgCount>>

\* a client that connects the idle service, sends, and disconnects
NextSession ==
  \/ ConnectIdle
  \/ Disconnect
  \/ SettleTimerFires
  \/ ReconnectTimerFires
  \/ \E payload \in Payloads : Send(payload)
  \/ \E t \in Slots : TransportOpen(t)
  \/ \E t \in Slots : TransportClose(t)
  \/ \E t \in Slots : TransportError(t)

SpecSession == Init /\ [][NextSession]_vars

\* the same client, with every reconnect timer that was set firing in the end
\* (setTimeout callbacks are run by the event loop once their delay is over)
SpecLive == Init /\ [][NextSession]_vars /\ WF_vars(ReconnectTimerFires)

\* ------------------------------------------------ the card of one adapter
\* the values a snapshot carries for a latency and for any other metric
LatencyValues == {0, 49, 50, 51, 99, 100, 101, 150, 200, 201}
MetricValues == {0, 1, 94, 95, 99}
MetricKeys ==
  {"avg_latency_ms", "success_rate", "validations_success", "validations_failed",
   "validation_success_rate", "warnings", "p50_latency_ms"}

\* adapterData with the latency and the other metrics a snapshot sent
DataWith(hasLat, lat, hasVal, val) ==
  [f \in (IF hasLat THEN {"avg_latency_ms"} ELSE {})
          \cup (IF hasVal THEN MetricKeys \ {"avg_latency_ms"} ELSE {}) |->
     IF f = "avg_latency_ms" THEN lat ELSE val]

cardIdle ==
  /\ UNCHANGED <<svcVars, dashVars, panelVars, standaloneVars, phaseVars, traceVars>>
  /\ UNCHANGED <<lastEmitted, lastDelay, userDisconnected, exhausted, msgCount, polled>>

\* the dashboard renders the card and the table row of adapter a
CardRender(a, hasLat, lat, hasVal, val) ==
  /\ card' = RenderCard(a, DataWith(hasLat, lat, hasVal, val))
  /\ lastOp' = "card"
  /\ cardIdle

\* getMetricClass(metricKey) is called on the card
CardMetric(metricKey) ==
  /\ card.adapterName # "none"
  /\ card' = [card EXCEPT
                !.metricKey = metricKey,
                !.metricClass = getMetricClass(getAdapterConfig(card.adapterName),
                                               card.adapterData, metricKey)]
  /\ lastOp' = "metric"
  /\ cardIdle

NextCard ==
  \/ \E a \in CardAdapters, hasLat \in BOOLEAN, lat \in LatencyValues,
         hasVal \in BOOLEAN, val \in MetricValues :
       CardRender(a, hasLat, lat, hasVal, val)
  \/ \E metricKey \in MetricKeys : CardMetric(metricKey)

SpecCard == Init /\ [][NextCard]_vars

\* ------------------------------------------------- a card and its ladders
\* A card whose config prop declares one metric, "probe", coloured by a
\* ladder of two entries: conditions of any comparator, or minimums.
Comparators == {">", ">=", "<", "<=", "=", "==="}
LadderBounds == {0, 1}
LadderValues == {0, 1, 2}

ConditionalLadder(c1, v1, c2, v2) ==
  [conditions |-> << [class |-> "first", condition |-> c1, value |-> v1],
                     [class |-> "second", condition |-> c2, value |-> v2] >>,
   type |-> "conditional"]

ThresholdLadder(m1, m2) ==
  [thresholds |-> << [class |-> "first", min |-> m1],
                     [class |-> "second", min |-> m2] >>,
   type |-> "threshold"]

LadderConfig(color) ==
  [color |-> "#3b82f6", metrics |-> [probe |-> [color |-> color]],
   name |-> "Probe", sections |-> <<>>, type |-> "unknown"]

\* the configs a card is given
ConditionalConfigs ==
  {LadderConfig(ConditionalLadder(c1, v1, c2, v2)) :
     c1 \in Comparators, v1 \in LadderBounds, c2 \in Comparators, v2 \in LadderBounds}
ThresholdConfigs ==
  {LadderConfig(ThresholdLadder(m1, m2)) : m1 \in LadderValues, m2 \in LadderValues}

\* getMetricClass('probe') is called on a card with this config and data
CardLadder(config, hasVal, val) ==
  /\ card' = [adapterName |-> "none",
              adapterData |-> IF hasVal THEN [probe |-> val] ELSE <<>>,
              config |-> config,
              displayName |-> "", borderColor |-> "", sections |-> <<>>,
              metricKeys |-> {"probe"}, latencyClass |-> "", tableClass |-> "",
              metricKey |-> "probe",
              metricClass |-> getMetricClass(config,
                                             IF hasVal THEN [probe |-> val] ELSE <<>>,
                                             "probe")]
  /\ lastOp' = "ladder"
  /\ cardIdle

NextLadder ==
  \/ \E config \in ConditionalConfigs, hasVal \in BOOLEAN, val \in LadderValues :
       CardLadder(config, hasVal, val)
  \/ \E config \in ThresholdConfigs, hasVal \in BOOLEAN, val \in LadderValues :
       CardLadder(config, hasVal, val)

SpecLadder == Init /\ [][NextLadder]_vars

\* ----------------------------------- the page of part_005 and its server
\* The page of part_005: its constructor connects, and its DOMContentLoaded
\* handler sets a timer that calls connectWebSocket() once more. The user
\* clicks the connect, start and stop buttons; the server accepts every
\* connection and may drop one. startDataPolling() and resetCharts() are
\* methods of window.dashboard; fetchDataViaHTTP() and resetCharts() of
\* part_005 have the text of those of dashboard.js, but its updateDashboard()
\* fails before the charts while no message has been handled.
Page5Init ==
  [StandaloneInit EXCEPT !.testRunning = FALSE, !.startTimers = 1]

\* updateDashboard(data) of part_005. lastUpdate is whether this.lastUpdate
\* holds a Date: updateMetricsTable() reads it for a row whose metrics carry
\* no last_update and throws while it is null, after the cards and before
\* updateCharts(), which then does not run.
updateDashboard5(s, data, t) ==
  LET summary == IF Has(data, "summary") THEN data.summary ELSE <<>>
      throws == /\ ~s.lastUpdate
                /\ \E i \in DOMAIN summary : ~Has(summary[i].v, "last_update")
  IN IF throws THEN updateOverviewCards(s, summary)
     ELSE updateCharts(updateOverviewCards(s, summary), summary, t)

\* handleMessage(data) of part_005, which stores a Date in lastUpdate first
handleMessage5(s0, data, t) ==
  LET s == [s0 EXCEPT !.lastUpdate = TRUE]
  IN CASE data.type = "metrics_update" ->
            IF Has(data, "data") THEN updateDashboard5(s, data.data, t) ELSE s
       [] data.type = "status" ->
            LET s1 == [s EXCEPT !.testRunning =
                         IF Has(data, "test_running") THEN data.test_running
                         ELSE FALSE]
            IN IF Has(data, "summary")
               THEN updateDashboard5(s1, [summary |-> data.summary], t)
               ELSE s1
       [] data.type = "test_complete" ->
            [s EXCEPT !.testRunning = FALSE, !.notifications = @ + 1]
       [] data.type = "summary" ->
            IF Has(data, "summary")
            THEN updateDashboard5(s, [summary |-> data.summary], t)
            ELSE s
       [] OTHER -> s

\* the callback of setTimeout(() => window.dashboard.connectWebSocket(), 2000)
Page5Startup ==
  /\ variant = "standalone"
  /\ standalone.startTimers > 0
  /\ standalone' = connectWebSocket([standalone EXCEPT !.startTimers = @ - 1])
  /\ quiet
  /\ lastOp' = "startup" /\ lastEmitted' = <<>>
  /\ UNCHANGED <<msgCount, seen, lastMsg>>
  /\ standaloneIdle

\* ws.onopen of part_005
Page5Open ==
  /\ variant = "standalone"
  /\ standalone.ws = "CONNECTING"
  /\ standalone' = [standalone EXCEPT !.ws = "OPEN", !.connected = TRUE]
  /\ quiet
  /\ lastOp' = "connected" /\ lastEmitted' = <<>>
  /\ lastMsg' = 0
  /\ UNCHANGED <<msgCount, seen>>
  /\ standaloneIdle

\* ws.onclose of part_005, of the current transport, which the server
\* dropped, or of one that connectWebSocket() closed
Page5Close(orphan) ==
  /\ variant = "standalone"
  /\ IF orphan THEN standalone.closing > 0
     ELSE standalone.ws \in {"CONNECTING", "OPEN"}
  /\ standalone.retryTimers < MaxTimers
  /\ standalone' = [standalone EXCEPT
                      !.ws = IF orphan THEN @ ELSE "CLOSED",
                      !.closing = IF orphan THEN @ - 1 ELSE @,
                      !.connected = FALSE,
                      !.retryTimers = @ + 1]
  /\ quiet
  /\ lastOp' = "disconnected" /\ lastEmitted' = <<>>
  /\ lastMsg' = 0
  /\ UNCHANGED <<msgCount, seen>>
  /\ standaloneIdle

\* a click on the connect button: connectWebSocket()
Page5Connect ==
  /\ variant = "standalone"
  /\ standalone.closing + standalone.retryTimers < MaxTimers
  /\ standalone' = connectWebSocket(standalone)
  /\ quiet
  /\ lastOp' = "connect" /\ lastEmitted' = <<>>
  /\ UNCHANGED <<msgCount, seen, lastMsg>>
  /\ standaloneIdle

\* startTest() once the answer of POST /api/test/start is read; ok: the
\* answer is a success. Up to there the call changes the button only.
Page5StartTest(ok) ==
  /\ variant = "standalone"
  /\ standalone' = [standalone EXCEPT !.testRunning = IF ok THEN TRUE ELSE @]
  /\ quiet
  /\ lastOp' = "start-test" /\ lastEmitted' = <<>>
  /\ UNCHANGED <<msgCount, seen, lastMsg>>
  /\ standaloneIdle

\* stopTest() once the answer of POST /api/test/stop is read or the request
\* has failed: a notification in every case, the run flag on a success
Page5StopTest(ok) ==
  /\ variant = "standalone"
  /\ standalone.notifications < MaxRequests
  /\ standalone' = [standalone EXCEPT !.testRunning = IF ok THEN FALSE ELSE @,
                                      !.notifications = @ + 1]
  /\ quiet
  /\ lastOp' = "stop-test" /\ lastEmitted' = <<>>
  /\ UNCHANGED <<msgCount, seen, lastMsg>>
  /\ standaloneIdle

\* startDataPolling(): the interval that is set, if any, is cleared and a
\* new one is set, which with one set before leaves the state as it was
Page5StartPolling ==
  /\ variant = "standalone"
  /\ IF standalone.dataPollingInterval
     THEN UNCHANGED vars
     ELSE /\ standalone' = [standalone EXCEPT !.dataPollingInterval = TRUE]
          /\ quiet
          /\ lastOp' = "start-polling" /\ lastEmitted' = <<>>
          /\ UNCHANGED <<msgCount, seen, lastMsg>>
          /\ standaloneIdle

\* the callback of the interval of startDataPolling(): during a test it asks
\* for a summary over the open transport, which the server answers with a
\* message, and calls fetchDataViaHTTP(); after the test it clears the
\* interval. One call is in flight at a time, and a call counts as an
\* exchange with the server.
Page5Poll ==
  /\ variant = "standalone"
  /\ standalone.dataPollingInterval
  /\ standalone.testRunning
       => /\ standalone.fetches + Len(polled.awaits) < MaxAwaits
          /\ msgCount < MaxWsMessages
  /\ msgCount' = IF standalone.testRunning THEN msgCount + 1 ELSE msgCount
  /\ standalone' = IF standalone.testRunning
                   THEN [standalone EXCEPT !.fetches = @ + 1]
                   ELSE [standalone EXCEPT !.dataPollingInterval = FALSE]
  /\ quiet
  /\ lastOp' = "poll" /\ lastEmitted' = <<>>
  /\ UNCHANGED <<seen, lastMsg>>
  /\ standaloneIdle

\* `await metricsRes.value.json()` of the j-th suspended fetchDataViaHTTP()
\* call of part_005 resumes with the body of the metrics response: a summary
\* that is not empty goes to updateDashboard(), whose exception the call
\* catches, and the call ends
Page5MetricsRead(j, metrics) ==
  /\ variant = "standalone"
  /\ j \in DOMAIN polled.awaits
  /\ polled.awaits[j] = "metrics"
  /\ metrics = "summary" => msgCount < MaxWsMessages
  /\ msgCount' = IF metrics = "summary" THEN msgCount + 1 ELSE msgCount
  /\ standalone' =
       IF metrics = "summary"
       THEN updateDashboard5(standalone, [summary |-> WsMessages[1].summary], now)
       ELSE standalone
  /\ seen' = IF metrics = "summary"
             THEN seen \cup SummaryKeys(WsMessages[1].summary) ELSE seen
  /\ polled' = [polled EXCEPT !.awaits = Without(@, j)]
  /\ invoked' = <<>> /\ result' = "none" /\ UNCHANGED <<dropped, card>>
  /\ lastOp' = "polled-metrics" /\ lastEmitted' = <<>>
  /\ UNCHANGED lastMsg
  /\ standaloneIdle

\* ws.onmessage of part_005
Page5Message(i) ==
  /\ variant = "standalone"
  /\ standalone.ws = "OPEN"
  /\ msgCount < MaxWsMessages
  /\ msgCount' = msgCount + 1
  /\ standalone' = handleMessage5(standalone, ProtocolMessages[i], now)
  /\ seen' = seen \cup SummaryKeys(MessageSummary(ProtocolMessages[i]))
  /\ lastMsg' = i
  /\ quiet
  /\ lastOp' = "message" /\ lastEmitted' = <<>>
  /\ standaloneIdle

InitStartup ==
  /\ transports = [t \in Slots |-> "NONE"] /\ ws = NoWs /\ reconnectAttempts = 0
  /\ reconnectTimers = 0 /\ settleTimers = 0
  /\ listeners = [e \in Events |-> <<>>]
  /\ sent = [t \in Slots |-> 0]
  /\ now = 1
  /\ dash = DashInit(1)
  /\ variant = "standalone"
  /\ dashMounted = "created"
  /\ standalone = Page5Init
  /\ warming = FALSE
  /\ warm = 0 /\ seen = {} /\ lastMsg = 0
  /\ panel = [p \in Panels |-> PanelInit]
  /\ chartData = [p \in Panels |-> <<>>]
  /\ pending = [p \in Panels |-> <<>>]
  /\ canvas = [p \in Panels |-> FALSE]
  /\ panelPhase = [p \in Panels |-> "created"]
  /\ focus = "none"
  /\ prevHash = [p \in Panels |-> EmptyHash]
  /\ lastOp = "init" /\ lastEmitted = <<>> /\ lastDelay = 0
  /\ invoked = <<>> /\ result = "none" /\ dropped = 0 /\ card = CardIdle
  /\ polled = PolledIdle
  /\ userDisconnected = FALSE /\ exhausted = FALSE /\ msgCount = 0

NextStartup ==
  \/ DashTick
  \/ Page5Startup
  \/ Page5Open
  \/ \E orphan \in BOOLEAN : Page5Close(orphan)
  \/ StandaloneRetry
  \/ Page5Connect
  \/ \E ok \in BOOLEAN : Page5StartTest(ok)
  \/ \E ok \in BOOLEAN : Page5StopTest(ok)
  \/ \E i \in DOMAIN ProtocolMessages : Page5Message(i)
  \/ Page5StartPolling
  \/ Page5Poll
  \/ \E statusRes \in FetchOutcomes, metricsRes \in FetchOutcomes :
       StandaloneFetched(statusRes, metricsRes)
  \/ \E j \in 1..MaxAwaits, status \in FetchStatus, running \in BOOLEAN :
       StandaloneStatusRead(j, status, running, FALSE)
  \/ \E j \in 1..MaxAwaits, metrics \in FetchMetrics :
       Page5MetricsRead(j, metrics)
  \/ StandaloneResetCharts

\* Timers fire once their delay is over, the server accepts every connection
\* and a transport that connectWebSocket() closed delivers its close event.
SpecStartup ==
  /\ InitStartup /\ [][NextStartup]_vars
  /\ WF_vars(Page5Startup) /\ WF_vars(Page5Open)
  /\ WF_vars(Page5Close(TRUE)) /\ WF_vars(StandaloneRetry)

\* ------------------------------------------- a dashboard and its messages
\* A dashboard, Vue or dashboard.js, that is given every message of the
\* protocol over a connection that stays open.
NextMsg ==
  \/ DashTick
  \/ \E i \in DOMAIN ProtocolMessages : VueMessage(i)
  \/ \E p \in RebuildPanels : \E createOk \in BOOLEAN :
       PanelRunDeferred(p, TRUE, createOk)
  \/ StandaloneOpen
  \/ \E i \in DOMAIN ProtocolMessages : StandaloneMessage(i)

SpecMsg == InitDash /\ [][NextMsg]_vars

\* ------------------------------------------------------------------ claims

\* C1: after disconnect() no transport is created until connect() is called
\* again: no pending reconnect timer survives disconnect() and the close of
\* the transport it closed schedules none.
C1_NoReconnectAfterDisconnect ==
  [][(userDisconnected /\ userDisconnected')
       => (~Created /\ reconnectTimers' <= reconnectTimers)]_vars

\* C2: at most maxReconnectAttempts reconnects are scheduled between opens;
\* a close that finds the budget spent emits disconnected and schedules
\* nothing, and from then on no transport is created and none opens until
\* connect() is called.
C2_BudgetThenStaysDisconnected ==
  [][/\ reconnectAttempts' <= maxReconnectAttempts
     /\ (lastOp' = "close" /\ reconnectAttempts = maxReconnectAttempts)
          => (reconnectTimers' = reconnectTimers /\ lastEmitted' = <<"disconnected">>)
     /\ (exhausted /\ exhausted') => (~Created /\ lastOp' # "open")]_vars

\* C3: the delay of a scheduled reconnect never exceeds the cap, does not
\* decrease from one attempt to the next while no open intervenes, and is
\* the base delay for the first attempt after an open (which resets the
\* counter).
C3_DelayMonotoneCapped ==
  [][/\ (lastOp' = "open") => (reconnectAttempts' = 0)
     /\ (lastOp' = "close" /\ reconnectAttempts' # reconnectAttempts)
          => /\ lastDelay' <= DelayCap
             /\ lastDelay' >= lastDelay
             /\ lastDelay' = ReconnectDelay(reconnectAttempts')
             /\ (reconnectAttempts = 0) => (lastDelay' = BaseDelay)]_vars

C3_Witness ==
  /\ lastOp = "close"
  /\ reconnectAttempts = maxReconnectAttempts
  /\ lastDelay = 15000

\* C4: connect() with an open transport creates nothing, emits nothing and
\* leaves the retry counter, the timers and the listener table as they were.
C4_ConnectWhileOpenIsNoOp ==
  [][(Connect /\ IsOpen(ws))
       => (UNCHANGED <<svcVars, dashVars>> /\ ~Created /\ lastEmitted' = <<>>)]_vars

C4_Witness == lastOp = "connect" /\ IsOpen(ws)

\* C9: a mounted LatencyChart or SuccessChart schedules a rebuild for an
\* update only if the update's fingerprint differs from the fingerprint of
\* the previous update, and an update whose fingerprint equals it changes
\* nothing of the panel and schedules nothing.
C9_RenderOnlyOnNewFingerprint ==
  [][\A p \in RebuildPanels :
       (/\ lastOp' \in {"data-scheduled", "data-skipped", "data-ignored"}
        /\ focus = p
        /\ panel[p].mountedReady
        /\ checkDataHasContent(chartData'[p]))
         => /\ prevHash[p] = panel[p].lastDataHash
            /\ (calculateDataHash(chartData'[p]) # prevHash[p])
                 => /\ Len(pending'[p]) = Len(pending[p]) + 1
                    /\ quiet
                    /\ lastOp' = "data-scheduled"
            /\ (calculateDataHash(chartData'[p]) = prevHash[p])
                 => /\ panel'[p] = panel[p]
                    /\ pending'[p] = pending[p]
                    /\ quiet
                    /\ lastOp' = "data-skipped"]_vars

\* a different bundle with the fingerprint of the previous one was skipped
C9_Witness ==
  \E p \in RebuildPanels :
    /\ lastOp = "data-skipped"
    /\ focus = p
    /\ chartData[p] = PanelBundles[6]
    /\ prevHash[p] = calculateDataHash(PanelBundles[5])
    /\ panel[p].chart = "live"

\* C10: no panel ever has more than one live chart, and its chart handle is
\* null or the live chart, never a reference to a destroyed chart.
C10_OneLiveChartNoStaleHandle ==
  \A p \in Panels :
    /\ panel[p].liveCharts <= 1
    /\ panel[p].chart # "destroyed"
    /\ (panel[p].chart = "live") <=> (panel[p].liveCharts = 1)


\* C5: in every reachable state each series buffer, latency and success, of
\* every adapter holds at most 100 points, in the Vue dashboard and in
\* dashboard.js.
C5_SeriesLengthBounded ==
  /\ \A i \in DOMAIN dash.latencyData : Len(dash.latencyData[i].v) <= maxPoints
  /\ \A i \in DOMAIN dash.successData : Len(dash.successData[i].v) <= maxPoints
  /\ \A i \in DOMAIN standalone.dataHistory :
       /\ Len(standalone.dataHistory[i].latency) <= maxPoints
       /\ Len(standalone.dataHistory[i].success) <= maxPoints

\* dashboard.js holds a full buffer whose oldest point has been evicted
C5_Witness ==
  /\ variant = "standalone"
  /\ \E i \in DOMAIN standalone.dataHistory :
       /\ Len(standalone.dataHistory[i].latency) = maxPoints
       /\ Len(standalone.dataHistory[i].success) = maxPoints
       /\ standalone.dataHistory[i].latency[1].x > 0

\* the series of adapter a in a bundle, empty when the bundle has no such key
SeriesOf(b, a) == IF BundleHas(b, a) THEN BundleGet(b, a) ELSE <<>>

\* new is old with point pt appended, the oldest point evicted if old was full
AppendedFifo(old, new, pt) ==
  /\ new # <<>>
  /\ new[Len(new)] = pt
  /\ IF Len(old) < maxPoints
     THEN Len(new) = Len(old) + 1 /\ SubSeq(new, 1, Len(old)) = old
     ELSE /\ Len(new) = maxPoints
          /\ SubSeq(new, 1, maxPoints - 1) = SubSeq(old, 2, maxPoints)

\* C6: a message handled by the Vue dashboard appends one point to the
\* latency and to the success series of each adapter its summary names: to a
\* series of 100 points it yields the old points 2..100 followed by the new
\* point, to a shorter series the old points followed by the new point; the
\* series of every other adapter, and every series in any other step, stays
\* as it was.
C6_FifoEviction ==
  [][\A a \in BundleKeys(dash.latencyData) \cup BundleKeys(dash'.latencyData)
             \cup BundleKeys(dash.successData) \cup BundleKeys(dash'.successData) :
       LET summary == IF lastOp' = "message" /\ lastMsg' # 0 /\ dash' # dash
                      THEN MessageSummary(WsMessages[lastMsg']) ELSE <<>>
           x == now' - dash'.chartStartTime
       IN IF a \in SummaryKeys(summary)
          THEN LET m == (CHOOSE e \in {summary[i] : i \in DOMAIN summary} : e.k = a).v
               IN /\ AppendedFifo(SeriesOf(dash.latencyData, a),
                                  SeriesOf(dash'.latencyData, a),
                                  [x |-> x, y |-> OrZero(m, "avg_latency_ms")])
                  /\ AppendedFifo(SeriesOf(dash.successData, a),
                                  SeriesOf(dash'.successData, a),
                                  [x |-> x, y |-> OrZero(m, "success_rate") * 100])
          ELSE /\ SeriesOf(dash'.latencyData, a) = SeriesOf(dash.latencyData, a)
               /\ SeriesOf(dash'.successData, a) = SeriesOf(dash.successData, a)]_vars

\* the Vue dashboard appended to a full series: the point of second 0 is gone
C6_Witness ==
  /\ variant = "vue"
  /\ lastOp = "message"
  /\ \E i \in DOMAIN dash.latencyData :
       /\ Len(dash.latencyData[i].v) = maxPoints
       /\ dash.latencyData[i].v[1].x = 1
       /\ dash.latencyData[i].v[maxPoints].x >= maxPoints

\* the connectivity flags the page shows: the adapters of the Vue dashboard,
\* the overview cards of dashboard.js
ShownAdapters == IF variant = "vue" THEN dash.adapters ELSE standalone.cards

\* C7: once the handler of a transport close has run, every adapter that a
\* snapshot has named is still known to the dashboard and its is_connected
\* flag is false.
C7_CloseMarksEveryAdapterOffline ==
  (lastOp = "disconnected")
    => \A a \in seen :
         /\ a \in DOMAIN ShownAdapters
         /\ "is_connected" \in DOMAIN ShownAdapters[a]
         /\ ShownAdapters[a].is_connected = FALSE

\* C8: when the Vue dashboard handles the snapshot message it handled last
\* once more, the fingerprint of each panel's data stays what it was after
\* the first merge and no further rebuild is scheduled.
C8_RemergeNoSecondRender ==
  [][(/\ variant = "vue"
      /\ quiet
      /\ lastOp' = "message"
      /\ dash' # dash
      /\ lastMsg # 0
      /\ lastMsg' = lastMsg
      /\ MessageSummary(WsMessages[lastMsg]) # <<>>)
       => \A p \in RebuildPanels :
            /\ calculateDataHash(DashProp(dash', p)) = calculateDataHash(DashProp(dash, p))
            /\ pending'[p] = pending[p]]_vars

\* C11: a payload that JSON.parse rejects is dropped: no message event is
\* emitted and no callback is called, and the service (transport, retry
\* counter, timers, listeners), the Vue dashboard and dashboard.js stay as
\* they were, so the transport is still open for the messages that follow.
C11_MalformedPayloadDropped ==
  [][(lastOp' = "malformed")
       => /\ UNCHANGED <<svcVars, dash, dashMounted, standalone, seen>>
          /\ lastEmitted' = <<>>
          /\ invoked' = <<>>
          /\ \/ \E t \in Slots : transports'[t] = "OPEN"
             \/ standalone'.ws = "OPEN"]_vars

\* after a dropped payload the Vue dashboard has handled a message
C11_Witness ==
  /\ variant = "vue"
  /\ lastOp = "message"
  /\ dropped > 0
  /\ invoked = <<"dashMessage">>
  /\ dash.totalDataPoints > 0

\* C12: a step that emits an event calls every callback registered for the
\* event, in registration order, whether or not an earlier one throws, and
\* the transport callback that emitted runs to its end: a close with budget
\* left still schedules its reconnect, an open still starts the settle timer.
C12_EveryHandlerInvoked ==
  [][(lastEmitted' # <<>>)
       => /\ invoked' = listeners[lastEmitted'[1]]
          /\ listeners' = listeners
          /\ (lastOp' = "close" /\ reconnectAttempts < maxReconnectAttempts)
               => reconnectTimers' = reconnectTimers + 1
          /\ (lastOp' = "open") => settleTimers' = settleTimers + 1]_vars

\* a message reached the callback registered after one that throws
C12_Witness ==
  /\ lastOp = "message"
  /\ listeners["message"] = <<"thrower", "counter">>
  /\ invoked = <<"thrower", "counter">>

\* C13: once the dashboard has been removed, no handler of the dashboard is
\* registered for any event of the service, and no event emitted afterwards
\* calls one.
C13_NoHandlerAfterTeardown ==
  (dashMounted = "removed")
    => /\ \A e \in Events : \A k \in 1..Len(listeners[e]) : listeners[e][k] \notin HandlerIds
       /\ \A k \in 1..Len(invoked) : invoked[k] \notin HandlerIds

\* C14: once a chart component has run beforeUnmount it holds no chart and no
\* chart of it is live, also after a rebuild deferred before the teardown
\* has run.
C14_NoChartAfterUnmount ==
  \A p \in Panels :
    (panelPhase[p] = "unmounted")
      => /\ panel[p].liveCharts = 0
         /\ panel[p].chart = "null"

\* a rebuild the watcher deferred ran after the component was torn down
C14_Witness ==
  /\ lastOp = "rebuild"
  /\ panelPhase[focus] = "unmounted"
  /\ panel[focus].chartStatus = "updating"
  /\ checkDataHasContent(chartData[focus])

\* C15: a call of send never throws; it returns true exactly when the
\* transport was open at the call, and then the payload was handed to it;
\* when it returns false nothing is transmitted and the service state is
\* unchanged.
C15_SendNeverThrows ==
  [][(lastOp' = "send")
       => /\ result' \in {"true", "false"}
          /\ (result' = "true") <=> IsOpen(ws)
          /\ (result' = "true") => sent' = [sent EXCEPT ![ws] = @ + 1]
          /\ (result' = "false") => UNCHANGED svcVars]_vars

\* C16: a transport open event resets the retry counter to 0 and emits
\* connected without sending anything; the request for initial data is sent
\* only by the settle timer, to an open transport, and no connection is
\* handed more than one such request.
C16_OneInitialRequestPerConnection ==
  /\ [](\A t \in Slots : sent[t] <= 1)
  /\ [][(lastOp' = "open")
          => /\ reconnectAttempts' = 0
             /\ lastEmitted' = <<"connected">>
             /\ sent' = sent]_vars
  /\ [][(lastOp' = "settle" /\ ~IsOpen(ws)) => sent' = sent]_vars

\* C17: a transport error event emits error and nothing else: the transports,
\* the retry counter, the timers and the listeners are unchanged and
\* disconnected is not emitted. A reconnect is scheduled only by a close
\* event, one per close.
C17_ErrorOnlyEmitsError ==
  [][/\ (lastOp' = "error")
          => /\ UNCHANGED svcVars
             /\ lastEmitted' = <<"error">>
     /\ (reconnectTimers' > reconnectTimers)
          => /\ lastOp' = "close"
             /\ reconnectTimers' = reconnectTimers + 1
             /\ reconnectAttempts' = reconnectAttempts + 1]_vars

\* an error on a transport made by a retry, the counter still at 1
C17_Witness ==
  /\ lastOp = "error"
  /\ lastEmitted = <<"error">>
  /\ reconnectAttempts = 1
  /\ reconnectTimers = 0
  /\ ws # NoWs /\ transports[ws] = "CONNECTING"

\* C18: with reconnect timers that fire, a close that leaves budget and
\* follows no disconnect() leads to a new connection attempt; and a transport
\* that opens emits connected and restores the budget (the counter is 0).
C18_CloseLeadsToReconnect ==
  /\ (lastOp = "close" /\ ~exhausted /\ ~userDisconnected)
       ~> (lastOp = "reconnect" /\ ws # NoWs /\ transports[ws] = "CONNECTING")
  /\ [][(lastOp' = "open")
          => /\ reconnectAttempts' = 0
             /\ lastEmitted' = <<"connected">>
             /\ invoked' = listeners["connected"]]_vars

\* the retry after the second close in a row made a new transport
C18_Witness ==
  /\ lastOp = "reconnect"
  /\ reconnectAttempts = 2
  /\ ~userDisconnected
  /\ ws # NoWs /\ transports[ws] = "CONNECTING"

\* the connectivity flag of the dashboard the page runs
ConnectedFlag == IF variant = "vue" THEN dash.connected ELSE standalone.connected

\* C19: the connectivity flag of a dashboard changes only in the handling of
\* a transport event, to true on an open and to false on a close; no message
\* and no HTTP fetch writes it, and dashboard.js never shows it true while
\* its transport is not open.
C19_FlagFollowsTransport ==
  /\ [][(ConnectedFlag' # ConnectedFlag)
          => /\ ConnectedFlag' => lastOp' = "connected"
             /\ ~ConnectedFlag' => lastOp' = "disconnected"]_vars
  /\ []((variant = "standalone" /\ standalone.connected) => standalone.ws = "OPEN")

\* the run-state flag and the message counter of the dashboard the page runs
RunningFlag == IF variant = "vue" THEN dash.testRunning ELSE standalone.testRunning
HandledMessages ==
  IF variant = "vue" THEN dash.totalDataPoints ELSE standalone.totalDataPoints

\* C20 as the specification states it: a connected or disconnected event
\* leaves testRunning as it was, and a message leaves connected as it was.
C20_AxesIndependent ==
  [][/\ (lastOp' \in {"connected", "disconnected"}) => RunningFlag' = RunningFlag
     /\ (lastOp' = "message") => ConnectedFlag' = ConnectedFlag]_vars

\* C20, amended: a dashboard starts disconnected with testRunning true; a
\* connected event sets connected and leaves testRunning as it was; a message
\* leaves connected as it was; a disconnected event clears connected and sets
\* testRunning to false as well; and time passing changes neither flag, so
\* the combination a dashboard is in persists.
C20_CloseStopsRun ==
  /\ [](lastOp = "init" => ~ConnectedFlag /\ RunningFlag)
  /\ [][/\ (lastOp' = "connected")
             => ConnectedFlag' /\ RunningFlag' = RunningFlag
        /\ (lastOp' = "message") => ConnectedFlag' = ConnectedFlag
        /\ (lastOp' = "disconnected") => ~ConnectedFlag' /\ ~RunningFlag'
        /\ (lastOp' = "tick")
             => ConnectedFlag' = ConnectedFlag /\ RunningFlag' = RunningFlag]_vars

\* dashboard.js at the end of a run through all four combinations: it
\* started disconnected and running, opened (connected, running), handled
\* test_complete (connected, stopped) and was closed (disconnected, stopped).
\* Two notifications on two counted events are test_complete and this close;
\* the settle timer of the one open is still set, so nothing was polled.
C20_Witness ==
  /\ variant = "standalone" /\ ~warming
  /\ lastOp = "disconnected"
  /\ ~ConnectedFlag /\ ~RunningFlag
  /\ msgCount = 2 /\ standalone.notifications = 2
  /\ standalone.settleTimers = 1 /\ standalone.fetches = 0
  /\ polled.awaits = <<>>
  /\ standalone.ws = "CLOSED" /\ standalone.closing = 0

\* the Vue dashboard handles initial_data before any snapshot was merged
SeedsFresh ==
  /\ variant = "vue"
  /\ dash.chartStartTime = NoTime /\ DOMAIN dash.adapters = {}
  /\ lastOp' = "message" /\ lastMsg' # 0
  /\ WsMessages[lastMsg'].type = "initial_data"

\* every adapter of the summary has its metric values stored and one point,
\* x = 0 and y = the snapshot value, in each of its series
Seeded(d, summary) ==
  \A i \in DOMAIN summary :
    LET a == summary[i].k
        m == summary[i].v
    IN /\ a \in DOMAIN d.adapters
       /\ \A f \in DOMAIN m : f \in DOMAIN d.adapters[a] /\ d.adapters[a][f] = m[f]
       /\ SeriesOf(d.latencyData, a) = << [x |-> 0, y |-> OrZero(m, "avg_latency_ms")] >>
       /\ SeriesOf(d.successData, a) = << [x |-> 0, y |-> OrZero(m, "success_rate") * 100] >>

\* C21 as the specification states it: initial_data with start_time T0 on a
\* fresh dashboard makes T0 the epoch of the series x-coordinates and seeds
\* every adapter of its summary with one point, x = 0, per series.
C21_InitialDataEpochIsT0 ==
  [][SeedsFresh
       => /\ dash'.chartStartTime * 1000 = WsMessages[lastMsg'].start_time
          /\ Seeded(dash', WsMessages[lastMsg'].summary)]_vars

\* C21, amended: initial_data with start_time T0 on a fresh dashboard stores
\* T0 as the start time of the run; the epoch of the series x-coordinates is
\* the clock reading of this first merge; every adapter of the summary is
\* seeded with its metric values and one point, x = 0, per series.
C21_InitialDataSeeds ==
  [][SeedsFresh
       => /\ dash'.startTime = WsMessages[lastMsg'].start_time
          /\ dash'.chartStartTime = now
          /\ Seeded(dash', WsMessages[lastMsg'].summary)]_vars

\* the fresh Vue dashboard was seeded: avg_latency_ms 10 gives [{x:0, y:10}]
C21_Witness ==
  /\ variant = "vue"
  /\ lastOp = "message" /\ lastMsg = 5
  /\ dash.startTime = 500
  /\ dash.totalDataPoints = 1
  /\ SeriesOf(dash.latencyData, "binance") = << [x |-> 0, y |-> 10] >>
  /\ SeriesOf(dash.latencyData, "okx") = << [x |-> 0, y |-> 40] >>

\* the x-coordinates of the points of a series never decrease along it
XNonDecreasing(pts) ==
  \A i \in 1..(Len(pts) - 1) : pts[i].x <= pts[i + 1].x

\* C22: with the clock never going back and the epoch fixed at the first
\* merge, the x-coordinates of every series, latency and success, of every
\* adapter are non-decreasing, in the Vue dashboard and in dashboard.js, also
\* once the oldest points have been evicted.
C22_SeriesXNonDecreasing ==
  /\ \A i \in DOMAIN dash.latencyData : XNonDecreasing(dash.latencyData[i].v)
  /\ \A i \in DOMAIN dash.successData : XNonDecreasing(dash.successData[i].v)
  /\ \A i \in DOMAIN standalone.dataHistory :
       /\ XNonDecreasing(standalone.dataHistory[i].latency)
       /\ XNonDecreasing(standalone.dataHistory[i].success)

\* a full success series of the Vue dashboard after an eviction, its last
\* point later than its first
C22_Witness ==
  /\ variant = "vue"
  /\ \E i \in DOMAIN dash.successData :
       LET pts == dash.successData[i].v
       IN /\ Len(pts) = maxPoints
          /\ pts[1].x > 0
          /\ pts[maxPoints].x > pts[1].x

\* the metrics a snapshot entry may omit, and what an omitted one reads as
MetricFields == {"avg_latency_ms", "success_rate", "is_connected"}
ReadsDefault(m, f) ==
  f \in DOMAIN m => m[f] = IF f = "is_connected" THEN FALSE ELSE 0

\* C23: after the Vue dashboard merges a snapshot, a metric that the
\* snapshot's entry for an adapter omits reads as its default in the
\* adapter's state (0, or false for is_connected), not as a value kept from
\* an earlier snapshot, and the points appended for the adapter have y = 0
\* for an omitted latency or success rate.
C23_SnapshotReplacesAdapter ==
  [][(variant = "vue" /\ lastOp' = "message" /\ lastMsg' # 0)
       => LET summary == MessageSummary(WsMessages[lastMsg']) IN
          \A i \in DOMAIN summary :
            LET a == summary[i].k
                m == summary[i].v
                lat == SeriesOf(dash'.latencyData, a)
                suc == SeriesOf(dash'.successData, a)
            IN /\ \A f \in MetricFields \ DOMAIN m : ReadsDefault(dash'.adapters[a], f)
               /\ lat # <<>> /\ lat[Len(lat)].y = OrZero(m, "avg_latency_ms")
               /\ suc # <<>> /\ suc[Len(suc)].y = OrZero(m, "success_rate") * 100]_vars

\* the rebuild of this step failed: it found no canvas, or new Chart threw
RebuildFailed ==
  /\ lastOp' = "rebuild"
  /\ focus \in RebuildPanels
  /\ ~canvas[focus] \/ panel'[focus].chartStatus = "failed"

\* C24: a rebuild of a chart component that fails, for want of a canvas or
\* because the creation throws, leaves the component with its placeholder
\* shown and no chart.
C24_FailedRebuildShowsPlaceholder ==
  [][RebuildFailed
       => /\ panel'[focus].showPlaceholder
          /\ panel'[focus].liveCharts = 0
          /\ panel'[focus].chart = "null"]_vars

\* a data update with content reaches a chart component whose last rebuild
\* failed in the creation of the chart
UpdateAfterFailure ==
  /\ focus \in RebuildPanels
  /\ panel[focus].chartStatus = "failed"
  /\ lastOp' \in {"data-scheduled", "data-skipped", "data-ignored"}
  /\ checkDataHasContent(chartData'[focus])

\* C25: a failed rebuild schedules nothing itself, and the next data update
\* with content that reaches the component schedules a rebuild, whether or
\* not its fingerprint is the one of the data whose rebuild failed.
C25_RetriedOnNextSnapshot ==
  /\ [][RebuildFailed => Len(pending'[focus]) = Len(pending[focus]) - 1]_vars
  /\ [][UpdateAfterFailure
          => /\ lastOp' = "data-scheduled"
             /\ Len(pending'[focus]) = Len(pending[focus]) + 1]_vars

\* The class C26 states for a metric: that of the first category with a
\* matching rule in the order static colour, conditional ladder, threshold
\* ladder, and that of the good/warning pair when no such rule matches, a
\* metric without any colour rule included. This is the stated ordering, not
\* getMetricClass: the method returns '' for a metric without a colour rule
\* before it reaches the pair.
PriorityClass(mc, value) ==
  LET cc == IF "color" \in DOMAIN mc THEN mc.color ELSE [type |-> "none"]
      cond == IF cc.type = "conditional"
              THEN FirstCondition(cc.conditions, value, 1) ELSE ""
      thr == IF cc.type = "threshold"
             THEN FirstThreshold(cc.thresholds, value, 1) ELSE ""
  IN IF cc.type = "static" THEN cc.value
     ELSE IF cond # "" THEN cond
     ELSE IF thr # "" THEN thr
     ELSE ThresholdPairClass(mc, value)

\* C26: the class getMetricClass gives a metric is the one of the first
\* category, in the order static colour, conditional ladder, threshold
\* ladder, that has a matching rule, and the one of the good/warning pair of
\* the metric when no such rule matches.
C26_MetricClassByPriority ==
  (card.metricKey # "none")
    => card.metricClass =
         PriorityClass(MetricConfig(getAdapterConfig(card.adapterName), card.metricKey),
                       OrZero(card.adapterData, card.metricKey))

\* The level C27 states for a latency: from the pair its adapter declares,
\* from the defaults 50 / 100 when it declares none. This is the stated
\* classification, which the card and the table row are compared with.
LatencyLevel(a, latency) ==
  LET mc == MetricConfig(getAdapterConfig(a), "avg_latency_ms") IN
  IF "thresholds" \in DOMAIN mc
  THEN IF latency <= mc.thresholds.good THEN "success"
       ELSE IF latency <= mc.thresholds.warning THEN "warning"
       ELSE "danger"
  ELSE IF latency < 50 THEN "success"
       ELSE IF latency < 100 THEN "warning"
       ELSE "danger"

\* the level a class of the card or of the table stands for
LevelOf(class) ==
  CASE class \in {"text-success", "bg-success"} -> "success"
    [] class \in {"text-warning", "bg-warning"} -> "warning"
    [] class \in {"text-danger", "bg-danger"} -> "danger"
    [] OTHER -> "none"

LevelRank(level) ==
  CASE level = "success" -> 0 [] level = "warning" -> 1 [] level = "danger" -> 2
    [] OTHER -> 3

\* C27: the latency class of a rendered adapter, on its card and in its row
\* of the table, is success, warning or danger; it is the level of the pair
\* the adapter declares, of the defaults 50 / 100 when it declares none, with
\* a missing latency taken as 0; and a higher latency never gets a better
\* level.
C27_LatencyClassByThresholds ==
  (card.adapterName # "none")
    => LET a == card.adapterName
           config == getAdapterConfig(a)
           latency == OrZero(card.adapterData, "avg_latency_ms")
       IN /\ LevelOf(card.latencyClass) = LatencyLevel(a, latency)
          /\ LevelOf(card.tableClass) = LatencyLevel(a, latency)
          /\ \A l1 \in LatencyValues, l2 \in LatencyValues :
               (l1 <= l2) =>
                 /\ LevelRank(LevelOf(latencyClass(config, [avg_latency_ms |-> l1])))
                      <= LevelRank(LevelOf(latencyClass(config, [avg_latency_ms |-> l2])))
                 /\ LevelRank(LevelOf(getLatencyClass([avg_latency_ms |-> l1])))
                      <= LevelRank(LevelOf(getLatencyClass([avg_latency_ms |-> l2])))

\* the adapter has its state and both of its series on the Vue dashboard
HasAdapterState(d, a) ==
  /\ a \in DOMAIN d.adapters
  /\ BundleHas(d.latencyData, a)
  /\ BundleHas(d.successData, a)

\* C28: on the Vue dashboard every adapter id a snapshot has ever carried has
\* its state and both of its series, whatever messages and connection events
\* followed; and no step removes an adapter or a series.
C28_AdapterStateNeverDestroyed ==
  /\ [](variant = "vue" => \A a \in seen : HasAdapterState(dash, a))
  /\ [][/\ DOMAIN dash.adapters \subseteq DOMAIN dash'.adapters
        /\ BundleKeys(dash.latencyData) \subseteq BundleKeys(dash'.latencyData)
        /\ BundleKeys(dash.successData) \subseteq BundleKeys(dash'.successData)]_vars

\* an adapter first seen in a later snapshot is still there after a close
C28_Witness ==
  /\ variant = "vue" /\ ~warming
  /\ lastOp = "disconnected"
  /\ {"binance", "kraken"} \subseteq seen
  /\ HasAdapterState(dash, "kraken")
  /\ Len(BundleGet(dash.latencyData, "binance")) > Len(BundleGet(dash.latencyData, "kraken"))

\* C29: the card of an adapter id the schema does not declare is rendered
\* from the generic default: its name is the id in upper case, its colour
\* #3b82f6, it has no sections and no metric rules, so every metric class is
\* empty and the latency class is the one of the defaults; the card of a
\* declared adapter shows the name, colour and sections of its schema.
C29_UnknownAdapterGetsDefault ==
  (card.adapterName # "none")
    => LET a == card.adapterName IN
       IF a \in DOMAIN adapterConfig
       THEN /\ card.displayName = adapterConfig[a].name
            /\ card.borderColor = adapterConfig[a].color
            /\ card.sections = adapterConfig[a].sections
            /\ card.metricKeys = DOMAIN adapterConfig[a].metrics
       ELSE /\ card.displayName = toUpperCase(a)
            /\ card.borderColor = "#3b82f6"
            /\ card.sections = <<>>
            /\ card.metricKeys = {}
            /\ card.metricClass = ""
            /\ card.latencyClass \in {"text-success", "text-warning", "text-danger"}
            /\ LevelOf(card.latencyClass) = LevelOf(card.tableClass)

\* the card of okx, which the schema does not declare, after a metric class
\* was asked of it
C29_Witness ==
  /\ card.adapterName = "okx"
  /\ card.displayName = "OKX"
  /\ card.metricKey = "warnings"
  /\ lastOp = "metric"

\* C30: a polled response older than the transport message the dashboard
\* handled last does not overwrite what that message left: the run flag a
\* status or test_complete message set and the adapter cards a snapshot set
\* stay those of the newer data.
C30_OlderPollDoesNotOverwrite ==
  [][(lastOp' \in {"polled-status", "polled-metrics"} /\ polled'.age = "older")
       => /\ WsMessages[lastMsg].type \in {"status", "test_complete"}
               => standalone'.testRunning = standalone.testRunning
          /\ MessageSummary(WsMessages[lastMsg]) # <<>>
               => standalone'.cards = standalone.cards]_vars

\* the latency and the success series of adapter a on the running dashboard
LatencySeries(a) ==
  IF variant = "vue" THEN SeriesOf(dash.latencyData, a)
  ELSE HistoryGet(standalone.dataHistory, a).latency
SuccessSeries(a) ==
  IF variant = "vue" THEN SeriesOf(dash.successData, a)
  ELSE HistoryGet(standalone.dataHistory, a).success

\* the adapters that have a series
SeriesAdapters ==
  IF variant = "vue"
  THEN BundleKeys(dash.latencyData) \cup BundleKeys(dash.successData)
  ELSE {standalone.dataHistory[i].k : i \in DOMAIN standalone.dataHistory}

\* the epoch of the x-coordinates
Epoch == IF variant = "vue" THEN dash.chartStartTime ELSE standalone.chartStartTime

\* the step handles a status message that has its test_running flag
HandlesStatus ==
  /\ lastOp' = "message" /\ lastMsg' # 0
  /\ ProtocolMessages[lastMsg'].type = "status"
  /\ Has(ProtocolMessages[lastMsg'], "test_running")

\* C31: after a status message is handled testRunning is the flag of the
\* message; a summary it carries is merged once: each adapter it names has
\* the values it sends and gets one point appended to each of its series, the
\* other series are unchanged; without a summary the adapter state and every
\* series are unchanged.
C31_StatusSetsRunState ==
  [][HandlesStatus
       => LET data == ProtocolMessages[lastMsg']
              summary == MessageSummary(data)
          IN /\ RunningFlag' = data.test_running
             /\ \A a \in SeriesAdapters \cup SeriesAdapters' :
                  IF a \in SummaryKeys(summary)
                  THEN LET m == (CHOOSE e \in {summary[i] : i \in DOMAIN summary} :
                                   e.k = a).v
                       IN /\ AppendedFifo(LatencySeries(a), LatencySeries(a)',
                                          [x |-> now - Epoch',
                                           y |-> OrZero(m, "avg_latency_ms")])
                          /\ AppendedFifo(SuccessSeries(a), SuccessSeries(a)',
                                          [x |-> now - Epoch',
                                           y |-> OrZero(m, "success_rate") * 100])
                          /\ a \in DOMAIN ShownAdapters'
                          /\ \A f \in DOMAIN m \cap {"avg_latency_ms", "is_connected"} :
                               ShownAdapters'[a][f] = m[f]
                  ELSE /\ LatencySeries(a)' = LatencySeries(a)
                       /\ SuccessSeries(a)' = SuccessSeries(a)
             /\ summary = <<>> => /\ ShownAdapters' = ShownAdapters
                                  /\ Epoch' = Epoch]_vars

\* a status message that stops the run and carries a summary was handled
\* after an earlier snapshot of the same adapter
C31_Witness ==
  /\ lastOp = "message" /\ lastMsg = 6
  /\ ~RunningFlag
  /\ Len(LatencySeries("binance")) = 2
  /\ LatencySeries("binance")[2].y = 30

\* the notifications the dashboard has raised
Notifications ==
  IF variant = "vue" THEN dash.notifications ELSE standalone.notifications

\* the step handles a test_complete message
HandlesTestComplete ==
  /\ lastOp' = "message" /\ lastMsg' # 0
  /\ ProtocolMessages[lastMsg'].type = "test_complete"

\* C32: handling test_complete stops the run and raises one notification; the
\* connected flag, the state of every adapter, every series and the epoch are
\* as they were.
C32_TestCompleteStopsRun ==
  [][HandlesTestComplete
       => /\ ~RunningFlag'
          /\ Notifications' = Notifications + 1
          /\ ConnectedFlag' = ConnectedFlag
          /\ ShownAdapters' = ShownAdapters
          /\ dash'.latencyData = dash.latencyData
          /\ dash'.successData = dash.successData
          /\ standalone'.dataHistory = standalone.dataHistory
          /\ Epoch' = Epoch]_vars

\* test_complete was handled by a connected dashboard that shows an adapter
C32_Witness ==
  /\ lastOp = "message" /\ lastMsg = 4
  /\ ConnectedFlag /\ ~RunningFlag
  /\ Notifications = 1
  /\ DOMAIN ShownAdapters # {}
  /\ LatencySeries("binance") # <<>>

\* C33: the first merge sets the epoch to the clock reading of that merge; no
\* later merge, message or connection event changes it, only an explicit
\* reset, which drops it together with every series; and every point a step
\* appends has x = the clock reading of the step minus the epoch.
C33_EpochFixedByFirstMerge ==
  [][/\ (Epoch # NoTime /\ lastOp' # "reset") => Epoch' = Epoch
     /\ lastOp' = "reset" => (Epoch' = NoTime /\ SeriesAdapters' = {})
     /\ Epoch' # NoTime => Epoch' <= now
     /\ (Epoch = NoTime /\ Epoch' # NoTime) => Epoch' = now
     /\ \A a \in SeriesAdapters' :
          /\ LatencySeries(a)' # LatencySeries(a)
               => LatencySeries(a)'[Len(LatencySeries(a)')].x = now - Epoch'
          /\ SuccessSeries(a)' # SuccessSeries(a)
               => SuccessSeries(a)'[Len(SuccessSeries(a)')].x = now - Epoch']_vars

\* a later merge appended a point at a later second: its x counts from the
\* epoch of the first merge
C33_Witness ==
  /\ lastOp \in {"message", "polled-metrics"}
  /\ Epoch # NoTime /\ now - Epoch = 1
  /\ \E a \in SeriesAdapters :
       /\ Len(LatencySeries(a)) = 2
       /\ LatencySeries(a)[1].x = 0
       /\ LatencySeries(a)[2].x = 1

\* the j-th point of a series counted from its end
FromEnd(v, j) == v[Len(v) - j + 1]

\* two bundles have the same non-empty series, in the same order, and each
\* pair of them agrees on its last min(5, length) points
SameTails(b1, b2) ==
  LET n1 == SelectSeq(b1, NonEmptyEntry)
      n2 == SelectSeq(b2, NonEmptyEntry)
  IN /\ Len(n1) = Len(n2)
     /\ \A i \in DOMAIN n1 :
          /\ n1[i].k = n2[i].k
          /\ Min(HashTail, Len(n1[i].v)) = Min(HashTail, Len(n2[i].v))
          /\ \A j \in 1..Min(HashTail, Len(n1[i].v)) :
               FromEnd(n1[i].v, j) = FromEnd(n2[i].v, j)

\* C34: two bundles have equal fingerprints exactly when they have the same
\* non-empty series in the same order with equal last-5 tails; and a panel
\* whose last scheduled data differs from the new data only in points older
\* than the last five, or in empty series, schedules no rebuild.
C34_FingerprintIsLastFiveTails ==
  /\ [](\A i \in DOMAIN PanelBundles, j \in DOMAIN PanelBundles :
          (calculateDataHash(PanelBundles[i]) = calculateDataHash(PanelBundles[j]))
            <=> SameTails(PanelBundles[i], PanelBundles[j]))
  /\ [][\A p \in RebuildPanels :
          (/\ lastOp' \in {"data-scheduled", "data-skipped", "data-ignored"}
           /\ panel[p].mountedReady
           /\ checkDataHasContent(chartData'[p])
           /\ panel[p].lastDataHash = calculateDataHash(chartData[p])
           /\ SameTails(chartData[p], chartData'[p]))
            => /\ pending'[p] = pending[p]
               /\ panel'[p] = panel[p]]_vars

\* a panel was given data that differs from the data of its last rebuild in
\* a point older than the last five, and skipped it
C34_Witness ==
  \E p \in RebuildPanels :
    /\ lastOp = "data-skipped"
    /\ chartData[p] = PanelBundles[6]
    /\ panel[p].lastDataHash = calculateDataHash(PanelBundles[5])
    /\ PanelBundles[5] # PanelBundles[6]
    /\ panel[p].chart = "live"

\* what a comparator of a conditional ladder says of a value and its bound
Compares(cmp, value, bound) ==
  \/ cmp = ">" /\ value > bound
  \/ cmp = ">=" /\ value >= bound
  \/ cmp = "<" /\ value < bound
  \/ cmp = "<=" /\ value <= bound
  \/ cmp \in {"=", "==="} /\ value = bound

\* entry i of the ladder matches the value
LadderMatches(color, i, value) ==
  IF color.type = "conditional"
  THEN Compares(color.conditions[i].condition, value, color.conditions[i].value)
  ELSE value >= color.thresholds[i].min

LadderEntries(color) ==
  IF color.type = "conditional" THEN color.conditions ELSE color.thresholds

\* C35: the class of a metric coloured by a ladder is that of the first entry,
\* in configured order, that matches the value: the first condition whose
\* comparator holds, the first minimum the value reaches; entries after it
\* that match as well are ignored, and a missing value counts as 0.
C35_FirstLadderEntryWins ==
  (lastOp = "ladder")
    => LET color == card.config.metrics[card.metricKey].color
           value == IF card.metricKey \in DOMAIN card.adapterData
                    THEN card.adapterData[card.metricKey] ELSE 0
           entries == LadderEntries(color)
       IN \A i \in DOMAIN entries :
            (/\ LadderMatches(color, i, value)
             /\ \A j \in 1..(i - 1) : ~LadderMatches(color, j, value))
              => card.metricClass = entries[i].class

\* both entries of a conditional ladder match a missing value, taken as 0,
\* and the first one gave the class
C35_Witness ==
  /\ lastOp = "ladder"
  /\ card.adapterData = <<>>
  /\ card.config.metrics.probe.color.type = "conditional"
  /\ LadderMatches(card.config.metrics.probe.color, 1, 0)
  /\ LadderMatches(card.config.metrics.probe.color, 2, 0)
  /\ card.config.metrics.probe.color.conditions[1].condition = ">="
  /\ card.metricClass = "first"

\* the transports that are connecting or open
LiveTransports == {t \in Slots : transports[t] \in {"CONNECTING", "OPEN"}}

\* C36: whatever the order of connect(), disconnect(), the open and close
\* events of the transports and the firings of the reconnect timers, at most
\* one transport is connecting or open and at most one reconnect timer is
\* pending.
C36_OneTransportOneTimer ==
  /\ Cardinality(LiveTransports) <= 1
  /\ reconnectTimers <= 1

\* C37: dashboard.js and its variants never close a transport that is open or
\* connecting, since connectWebSocket() finds no live transport when a timer
\* or the HTTP fallback calls it (a click on the connect button of part_005
\* may find one); and with a server that drops no connection the dashboard
\* is, from some point on, connected for good.
C37_NoSelfCloseStaysConnected ==
  /\ [][lastOp' # "connect" => standalone'.closing <= standalone.closing]_vars
  /\ [](standalone.ws # "CLOSED")
       => <>[](variant = "standalone" => standalone.connected)

\* the data a scheduled rebuild of panel p is run with: mounted() reads the
\* prop when its callback runs, the watcher passes the data it was given
ScheduledData(p, i) ==
  IF pending[p][i].fromProp THEN chartData[p] ELSE pending[p][i].data

\* C38: while a rebuild of a mounted panel is scheduled, lastDataHash is the
\* fingerprint of the data of the rebuild scheduled last, also when mounted()
\* scheduled it; and no two rebuilds scheduled one after the other have data
\* of the same fingerprint.
C38_HashOfLastScheduledRebuild ==
  \A p \in RebuildPanels :
    (panelPhase[p] = "mounted" /\ pending[p] # <<>>)
      => /\ panel[p].lastDataHash
              = calculateDataHash(ScheduledData(p, Len(pending[p])))
         /\ \A i \in 1..(Len(pending[p]) - 1) :
              calculateDataHash(ScheduledData(p, i))
                # calculateDataHash(ScheduledData(p, i + 1))

\* the fields of an adapter's state other than its connectivity flag
FrozenFields(m) == (DOMAIN m) \ {"is_connected"}

\* the step is the Vue dashboard's handler of a disconnected event
HandlesDisconnected == variant = "vue" /\ lastOp' = "disconnected"

\* C39: the disconnected handler of the Vue dashboard changes nothing but the
\* connected flag, the run flag and the adapters' is_connected flags: the
\* other fields of every adapter, both series of every adapter, the epoch, the
\* point counter and the rest of the dashboard's data are as before.
C39_DisconnectFreezesData ==
  [][HandlesDisconnected
       => /\ DOMAIN dash'.adapters = DOMAIN dash.adapters
          /\ \A a \in DOMAIN dash.adapters :
               /\ FrozenFields(dash'.adapters[a]) = FrozenFields(dash.adapters[a])
               /\ \A f \in FrozenFields(dash.adapters[a]) :
                    dash'.adapters[a][f] = dash.adapters[a][f]
          /\ dash'.latencyData = dash.latencyData
          /\ dash'.successData = dash.successData
          /\ dash'.chartStartTime = dash.chartStartTime
          /\ dash'.totalDataPoints = dash.totalDataPoints
          /\ dash'.startTime = dash.startTime
          /\ dash'.lastUpdate = dash.lastUpdate]_vars

\* a disconnect after two snapshots: the values, the series and the counter
\* of the snapshots are still there, the adapters are offline
C39_Witness ==
  /\ variant = "vue" /\ ~warming
  /\ lastOp = "disconnected"
  /\ ~dash.connected /\ ~dash.testRunning
  /\ dash.totalDataPoints >= 2
  /\ dash.chartStartTime # NoTime
  /\ "binance" \in DOMAIN dash.adapters
  /\ ~dash.adapters["binance"].is_connected
  /\ dash.adapters["binance"].avg_latency_ms = 30
  /\ Len(SeriesOf(dash.latencyData, "binance")) >= 2
  /\ Len(SeriesOf(dash.successData, "binance")) >= 2

\* the x-coordinates of a series, in order
XCoordinates(pts) == [i \in DOMAIN pts |-> pts[i].x]

\* C40: on both dashboards the latency series and the success series of every
\* adapter have the same length and the same x-coordinates in the same order.
C40_SeriesAligned ==
  \A a \in SeriesAdapters :
    /\ Len(LatencySeries(a)) = Len(SuccessSeries(a))
    /\ XCoordinates(LatencySeries(a)) = XCoordinates(SuccessSeries(a))

\* dashboard.js after an eviction: both series of an adapter are full and
\* start after second 0, next to an adapter whose series are shorter
C40_Witness ==
  /\ variant = "standalone"
  /\ lastOp = "message"
  /\ \E a \in SeriesAdapters, b \in SeriesAdapters :
       /\ Len(LatencySeries(a)) = maxPoints
       /\ Len(SuccessSeries(a)) = maxPoints
       /\ LatencySeries(a)[1].x > 0
       /\ SuccessSeries(a)[maxPoints].x >= maxPoints
       /\ Len(LatencySeries(b)) \in 1..(maxPoints - 1)

====
